---- MODULE Spec2Model ----
(***************************************************************************)
(* The agent loop of cloud.ddb: InteractiveSQLExecutor.execute_task       *)
(* (src/agent/interactive_sql_executor.py) driven by a host, together     *)
(* with ToolManager.call_tool (src/agent/tool_manager.py).                *)
(*                                                                         *)
(* execute_task is a Python generator.  Each action below is one segment  *)
(* of the generator between two points where control leaves it: a yield   *)
(* to the host, the call of the model, or the call of a tool.  The model  *)
(* replies, the tool results and the values the host sends are inputs.    *)
(*                                                                         *)
(* A text is a tuple of strings: an f-string is the tuple of its literal  *)
(* part and the values formatted into it.                                  *)
(***************************************************************************)
EXTENDS Integers, Sequences, FiniteSets, TLC

VARIABLES
    pc,                 \* position of the generator
    max_turns,          \* self.max_turns
    tools,              \* names registered in self.tool_manager.tools
    history,            \* the caller's conversation_history list (aliased as history)
    events,             \* everything the generator has yielded to the host, in order
    turn_count,         \* local turn_count
    consecutive_errors, \* local consecutive_errors
    tool_name,          \* local tool_name of the action being dispatched ("" when none)
    retval,             \* the generator's return value once it has finished
    exec_result,        \* local exec_result: what the last call_tool returned
    user_choice,        \* local user_choice: what the last resumption passed in
    trace,              \* the inputs received so far, in order
    model_calls,        \* number of calls of interactive_sql_agent_prompt
    dispatches,         \* number of calls of tool_manager.call_tool
    ct,                 \* the frame of one ToolManager.call_tool call
    sel,                \* the frame of one LLMCandidateSelector.select call
    spl,                \* the frame of one _split_index_into_chunks call
    host,               \* the streaming endpoint around the generator
    wf,                 \* the frame of one WriteFileTool.run call
    call,               \* the frame of one call of a function without side effects
    accounts,           \* the users and verification codes behind the auth endpoints
    env                 \* one environment record, its cloud resources and the tasks on it

vars == <<pc, max_turns, tools, history, events, turn_count, consecutive_errors,
          tool_name, exec_result, user_choice, retval, trace, model_calls, dispatches,
          ct, sel, spl, host, wf, call, accounts, env>>

\* what a step of execute_task never touches
components == <<ct, sel, spl, host, wf, call, accounts, env>>

(***************************************************************************)
(* Bounds.                                                                 *)
(***************************************************************************)
\* self.max_turns is an instance attribute (150 after construction); the
\* runs explored here use a smaller configured value.
MaxTurns == 6
\* every model call streams MaxChunks chunks before its reply is complete
MaxChunks == 1
\* interactive requests tools make in one run
MaxInteractive == 1
\* every tool run yields MaxProgress progress events before it returns
MaxProgress == 1

(***************************************************************************)
(* Program constants and input alphabets.                                  *)
(***************************************************************************)
max_consecutive_errors == 5

user_input == "task"

\* ToolManager(tools): the names registered for a request
ToolRegistry == {"run_dolphindb_script", "plan_mode_response"}

\* error_message values a failing tool reports
ErrorTexts == {"E1"}
\* final_answer values carried by a completion signal
ResultTexts == {"R", "R2"}
\* data of an ordinary successful result
DataTexts == {"D"}
\* message of an interactive request
AskTexts == {"Q"}

\* What the host passes when it resumes a suspended generator: <<>> for
\* next() (the yield evaluates to None), <<s>> for send(s).
UserChoices == {<<>>, <<"">>, <<"yes">>}

(***************************************************************************)
(* Events (src/agent/task_status.py) and conversation entries.             *)
(***************************************************************************)
Event(subtype, flag, text, n) ==
    [subtype |-> subtype, flag |-> flag, text |-> text, n |-> n]

TaskStart == Event("start", FALSE, <<user_input>>, 0)

TaskEnd(success, final_message, n) == Event("end", success, final_message, n)

ReactThought(turn) == Event("react_thought", FALSE, <<"Thinking">>, turn)

ReactAction(name) == Event("react_action", FALSE, <<name>>, 0)

ReactObservation(observation, is_error) ==
    Event("react_observation", is_error, observation, 0)

LlmChunk == Event("llm_chunk", FALSE, <<"chunk">>, 0)

ToolProgressEvent(name) == Event("tool_progress", FALSE, <<name>>, 0)

InteractionData(message) == Event("USER_INTERACTION", FALSE, <<message>>, 0)

Entry(role, content, multipart) ==
    [role |-> role, content |-> content, multipart |-> multipart]


Last(seq) == seq[Len(seq)]

\* the least element of a non-empty set of positions
MinPos(S) == CHOOSE i \in S : \A j \in S : i <= j

CountOf(seq, subtype) ==
    Cardinality({i \in DOMAIN seq : seq[i].subtype = subtype})

\* length of the longest suffix of seq made of events of this subtype
TrailingCount(seq, subtype) ==
    CHOOSE k \in 0..Len(seq) :
        /\ \A i \in (Len(seq) - k + 1)..Len(seq) : seq[i].subtype = subtype
        /\ k < Len(seq) => seq[Len(seq) - k].subtype # subtype

(***************************************************************************)
(* Texts built by execute_task.                                            *)
(***************************************************************************)
MaxTurnsMessage == <<"Task aborted: Exceeded maximum total turns">>

NoActionAbortMessage ==
    <<"Task aborted after consecutive errors. The agent was unable to proceed.">>

LastErrorAbortMessage(error_message) ==
    <<"Task aborted after consecutive errors. Last error:", error_message>>

NoActionObservation ==
    <<"Agent did not produce a valid action. Please analyze the history and decide the next step.">>

FailedObservation(name, error_message) ==
    <<"Action failed with the following error:", name, error_message>>

CompletionObservation == <<"Task completion signaled.">>

UserRespondedObservation(choice) == <<"User responded with:", choice>>

ResumedObservation == <<"Resumed without user input. Continuing with current plan.">>

EnvironmentDetails == <<"environment_details", "Current Mode: ACT">>

\* the tool-result message with the observation ahead of the prefix
ToolResultMessage_observation_first(name, observation_content) ==
    Entry("user", <<observation_content, <<"Result:", name>>, EnvironmentDetails>>, TRUE)

\* the structured three-part user message appended after a dispatched tool
ToolResultMessage(name, observation_content) ==
    Entry("user", <<<<"Result:", name>>, observation_content, EnvironmentDetails>>, TRUE)

(***************************************************************************)
(* ExecutionResult values a tool can hand back, and None.                  *)
(***************************************************************************)
ExecutionResult(success, kind, text) ==
    [none |-> FALSE, success |-> success, kind |-> kind, text |-> text]

NoneResult == [none |-> TRUE, success |-> FALSE, kind |-> "plain", text |-> ""]

ToolResults ==
    {NoneResult}
    \cup {ExecutionResult(FALSE, "plain", e) : e \in ErrorTexts}
    \cup {ExecutionResult(TRUE, "plain", d) : d \in DataTexts}
    \cup {ExecutionResult(TRUE, "completion", r) : r \in ResultTexts}
    \cup {ExecutionResult(TRUE, "interactive", q) : q \in AskTexts}

\* ToolManager.get_tool_definitions(mode="ACT"), as the names the parser looks for
known_tool_names_for_prompt == tools \ {"plan_mode_response"}

\* ToolManager.call_tool: what the call ends with
call_tool(name, args_valid, run_raises, result) ==
    IF name \notin tools
    THEN [raised |-> "ToolNotFoundError", result |-> NoneResult]
    ELSE IF ~args_valid \/ run_raises
         THEN [raised |-> "ToolArgumentValidationError", result |-> NoneResult]
         ELSE [raised |-> "", result |-> result]

\* Python truthiness of the value the yield expression evaluates to
Truthy(choice) == choice # <<>> /\ choice[1] # ""

\* is_error = not exec_result or not exec_result.success
is_error(r) == r.none \/ ~r.success

\* the budget test written with > instead of >=
ErrorBudgetReached_late(errors) == errors > max_consecutive_errors

\* consecutive_errors >= max_consecutive_errors
ErrorBudgetReached(errors) == errors >= max_consecutive_errors

\* the budget test written with >= instead of >
TurnBudgetExceeded_early(turns) == turns >= max_turns

\* turn_count > self.max_turns
TurnBudgetExceeded(turns) == turns > max_turns

NoReturn == [has |-> FALSE, value |-> <<>>]

(***************************************************************************)
(* The other components before they are used.                              *)
(***************************************************************************)
\* no call of ToolManager.call_tool is in progress
CtIdle ==
    [pc |-> "idle", name |-> "", args_valid |-> TRUE, yields |-> <<>>,
     script |-> <<>>, run_raises |-> FALSE, result |-> NoneResult,
     forwarded |-> <<>>, validated |-> FALSE, started |-> FALSE,
     returned |-> <<>>, raised |-> ""]

\* no call of LLMCandidateSelector.select is in progress
SelIdle ==
    [pc |-> "idle", responses |-> <<>>, max_workers |-> 0, submitted |-> <<>>,
     pending |-> {}, running |-> {}, order |-> <<>>,
     processed_chunks |-> 0, all_candidates_with_scores |-> <<>>, merged |-> 0,
     best_candidates |-> <<>>, sorted_candidates_list |-> <<>>,
     emitted |-> <<>>, returned |-> <<>>]

\* no call of _split_index_into_chunks is in progress
SplIdle ==
    [pc |-> "idle", index_data |-> <<>>, i |-> 1, chunks |-> <<>>,
     current_chunk |-> <<>>, current_tokens |-> 0]

\* the generator is driven directly, not by a streaming endpoint
HostDirect ==
    [mode |-> "direct", client |-> "connected", consumer |-> "polling", delivered |-> 0,
     thread |-> "running", tail |-> <<>>, sent |-> <<>>]

\* no call of WriteFileTool.run is in progress
WfIdle ==
    [pc |-> "idle", has_dir |-> FALSE, chunks |-> 0, step |-> 1, waited |-> 0,
     cause |-> "", returned |-> <<>>, raised |-> "",
     issued |-> <<>>, tmp |-> <<>>, dest |-> "old"]

\* the components explored one call at a time
units == <<wf, call, accounts, env>>

\* no function call is being explored
CallIdle == [op |-> "", arg |-> <<>>, done |-> FALSE, out |-> <<>>]

\* no user registered, no request made
NoAccounts ==
    [users |-> <<>>, codes |-> {}, code_ids |-> 0, now |-> 0, tokens |-> {},
     last |-> [endpoint |-> "", email |-> "", secret |-> "", status |-> 0]]

\* no task of the worker has run yet and no record has been created
NoTask == [pc |-> "idle", group |-> "", cs_group |-> "", ok |-> FALSE, listed |-> {}]

\* no environment has been requested
NoEnvironment ==
    [status |-> "", container_group_id |-> "", code_server_group_id |-> "",
     message |-> "", expired |-> FALSE, live |-> {}, create |-> "idle",
     delete |-> NoTask, sync |-> NoTask, check |-> NoTask]

UnitsAtRest ==
    /\ wf = WfIdle
    /\ call = CallIdle
    /\ accounts = NoAccounts
    /\ env = NoEnvironment

(***************************************************************************)
(* The generator.                                                          *)
(***************************************************************************)
Init ==
    /\ pc = "init"
    /\ max_turns = MaxTurns
    /\ tools = ToolRegistry
    /\ history \in {<<>>, <<Entry("user", <<<<user_input>>>>, FALSE)>>}
    /\ events = <<>>
    /\ turn_count = 0
    /\ consecutive_errors = 0
    /\ tool_name = ""
    /\ exec_result = NoneResult
    /\ user_choice = <<>>
    /\ retval = NoReturn
    /\ trace = <<>>
    /\ model_calls = 0
    /\ dispatches = 0
    /\ ct = CtIdle
    /\ sel = SelIdle
    /\ spl = SplIdle
    /\ host = HostDirect
    /\ UnitsAtRest

\* first next(): everything up to the yield of TaskStart
Begin ==
    /\ pc = "init"
    /\ events' = Append(events, TaskStart)
    /\ pc' = "started"
    /\ UNCHANGED <<max_turns, tools, history, turn_count, consecutive_errors,
                   tool_name, retval, trace, model_calls, dispatches, user_choice, exec_result>>
    /\ UNCHANGED components

\* Enter appending the user message whatever the history ends with
Enter_always_appends ==
    /\ pc = "started"
    /\ history' = Append(history, Entry("user", <<<<user_input>>>>, FALSE))
    /\ consecutive_errors' = 0
    /\ turn_count' = 0
    /\ pc' = "loop"
    /\ UNCHANGED <<max_turns, tools, events, tool_name, retval, trace,
                   model_calls, dispatches, user_choice, exec_result>>
    /\ UNCHANGED components

\* Enter with the turn counter initialised to 1
Enter_starts_at_one ==
    /\ pc = "started"
    /\ history' = IF history = <<>> \/ Last(history).content # <<<<user_input>>>>
                  THEN Append(history, Entry("user", <<<<user_input>>>>, FALSE))
                  ELSE history
    /\ consecutive_errors' = 0
    /\ turn_count' = 1
    /\ pc' = "loop"
    /\ UNCHANGED <<max_turns, tools, events, tool_name, retval, trace,
                   model_calls, dispatches, user_choice, exec_result>>
    /\ UNCHANGED components

\* entering the try block: the first user message and the counters
Enter ==
    /\ pc = "started"
    /\ history' = IF history = <<>> \/ Last(history).content # <<<<user_input>>>>
                  THEN Append(history, Entry("user", <<<<user_input>>>>, FALSE))
                  ELSE history
    /\ consecutive_errors' = 0
    /\ turn_count' = 0
    /\ pc' = "loop"
    /\ UNCHANGED <<max_turns, tools, events, tool_name, retval, trace,
                   model_calls, dispatches, user_choice, exec_result>>
    /\ UNCHANGED components

\* top of the while loop, turn budget exhausted
TurnLimit ==
    /\ pc = "loop"
    /\ TurnBudgetExceeded(turn_count + 1)
    /\ turn_count' = turn_count + 1
    /\ events' = Append(events, TaskEnd(FALSE, MaxTurnsMessage, max_turns))
    /\ pc' = "done"
    /\ UNCHANGED <<max_turns, tools, history, consecutive_errors, tool_name,
                   retval, trace, model_calls, dispatches, user_choice, exec_result>>
    /\ UNCHANGED components

\* top of the while loop, prompt built and the model called
CallModel ==
    /\ pc = "loop"
    /\ ~TurnBudgetExceeded(turn_count + 1)
    /\ turn_count' = turn_count + 1
    /\ model_calls' = model_calls + 1
    /\ pc' = "await_model"
    /\ UNCHANGED <<max_turns, tools, history, events, consecutive_errors,
                   tool_name, retval, trace, dispatches, user_choice, exec_result>>
    /\ UNCHANGED components

\* next(response_generator) delivers a chunk, forwarded to the host
\* as an llm_chunk event
ModelChunk ==
    /\ pc = "await_model"
    /\ TrailingCount(events, "llm_chunk") < MaxChunks
    /\ events' = Append(events, LlmChunk)
    /\ UNCHANGED <<pc, max_turns, tools, history, turn_count, consecutive_errors,
                   tool_name, retval, trace, model_calls, dispatches, user_choice, exec_result>>
    /\ UNCHANGED components

\* the model call raises: caught by the outer except, which prints and falls
\* off the end of the generator
ModelRaises ==
    /\ pc = "await_model"
    /\ trace' = Append(trace, "model_raised")
    /\ pc' = "done"
    /\ UNCHANGED <<max_turns, tools, history, events, turn_count,
                   consecutive_errors, tool_name, retval, model_calls, dispatches, user_choice, exec_result>>
    /\ UNCHANGED components

\* the no-action turn without the history entry for its observation
ModelReplyNoAction_skips_observation ==
    /\ pc = "await_model"
    /\ TrailingCount(events, "llm_chunk") = MaxChunks
    /\ trace' = Append(trace, "no_action")
    /\ consecutive_errors' = consecutive_errors + 1
    /\ history' = Append(history, Entry("assistant", <<<<"reply", "none">>>>, FALSE))
    /\ IF ErrorBudgetReached(consecutive_errors')
       THEN /\ events' = events \o
                  <<ReactThought(turn_count),
                    ReactObservation(NoActionObservation, TRUE),
                    TaskEnd(FALSE, NoActionAbortMessage, max_consecutive_errors)>>
            /\ pc' = "done"
       ELSE /\ events' = events \o
                  <<ReactThought(turn_count),
                    ReactObservation(NoActionObservation, TRUE)>>
            /\ pc' = "loop"
    /\ UNCHANGED <<max_turns, tools, turn_count, tool_name, retval,
                   model_calls, dispatches, user_choice, exec_result>>
    /\ UNCHANGED components

\* StopIteration with the reply; the parser found no action in it
ModelReplyNoAction ==
    /\ pc = "await_model"
    /\ TrailingCount(events, "llm_chunk") = MaxChunks
    /\ trace' = Append(trace, "no_action")
    /\ consecutive_errors' = consecutive_errors + 1
    /\ history' = history \o
           <<Entry("assistant", <<<<"reply", "none">>>>, FALSE),
             Entry("tool_result", <<NoActionObservation>>, FALSE)>>
    /\ IF ErrorBudgetReached(consecutive_errors')
       THEN /\ events' = events \o
                  <<ReactThought(turn_count),
                    ReactObservation(NoActionObservation, TRUE),
                    TaskEnd(FALSE, NoActionAbortMessage, max_consecutive_errors)>>
            /\ pc' = "done"
       ELSE /\ events' = events \o
                  <<ReactThought(turn_count),
                    ReactObservation(NoActionObservation, TRUE)>>
            /\ pc' = "loop"
    /\ UNCHANGED <<max_turns, tools, turn_count, tool_name, retval,
                   model_calls, dispatches, user_choice, exec_result>>
    /\ UNCHANGED components

\* the reply with an action, its action event emitted before its thought
ModelReplyAction_action_first ==
    /\ pc = "await_model"
    /\ TrailingCount(events, "llm_chunk") = MaxChunks
    /\ \E name \in known_tool_names_for_prompt :
          /\ tool_name' = name
          /\ history' = Append(history, Entry("assistant", <<<<"reply", name>>>>, FALSE))
          /\ events' = events \o <<ReactAction(name), ReactThought(turn_count)>>
    /\ dispatches' = dispatches + 1
    /\ pc' = "dispatch"
    /\ UNCHANGED <<max_turns, tools, turn_count, consecutive_errors, retval,
                   trace, model_calls, user_choice, exec_result>>
    /\ UNCHANGED components

\* StopIteration with the reply; the parser found an action for a known tool
ModelReplyAction ==
    /\ pc = "await_model"
    /\ TrailingCount(events, "llm_chunk") = MaxChunks
    /\ \E name \in known_tool_names_for_prompt :
          /\ tool_name' = name
          /\ history' = Append(history, Entry("assistant", <<<<"reply", name>>>>, FALSE))
          /\ events' = events \o <<ReactThought(turn_count), ReactAction(name)>>
    /\ dispatches' = dispatches + 1
    /\ pc' = "dispatch"
    /\ UNCHANGED <<max_turns, tools, turn_count, consecutive_errors, retval,
                   trace, model_calls, user_choice, exec_result>>
    /\ UNCHANGED components

\* the running tool yields a progress event, forwarded by yield from
ToolProgress ==
    /\ pc = "dispatch"
    /\ tool_name \in tools
    /\ TrailingCount(events, "tool_progress") < MaxProgress
    /\ events' = Append(events, ToolProgressEvent(tool_name))
    /\ UNCHANGED <<pc, max_turns, tools, history, turn_count, consecutive_errors,
                   tool_name, retval, trace, model_calls, dispatches, user_choice, exec_result>>
    /\ UNCHANGED components

\* call_tool raises: caught by the outer except, which prints and falls off
\* the end of the generator
ToolRaises ==
    /\ pc = "dispatch"
    /\ \E args_valid \in BOOLEAN, run_raises \in BOOLEAN :
          call_tool(tool_name, args_valid, run_raises, NoneResult).raised # ""
    /\ trace' = Append(trace, "tool_raised")
    /\ pc' = "done"
    /\ UNCHANGED <<max_turns, tools, history, events, turn_count,
                   consecutive_errors, tool_name, retval, model_calls, dispatches, user_choice, exec_result>>
    /\ UNCHANGED components


\* call_tool returns a failed result, or None
ToolFails ==
    /\ pc = "dispatch"
    /\ TrailingCount(events, "tool_progress") = MaxProgress
    /\ \E result \in ToolResults :
          LET returned == call_tool(tool_name, TRUE, FALSE, result).result IN
          /\ call_tool(tool_name, TRUE, FALSE, result).raised = ""
          /\ exec_result' = returned
          /\ is_error(returned)
          /\ trace' = Append(trace, IF returned.none THEN "tool_none" ELSE "tool_failed")
          /\ consecutive_errors' = consecutive_errors + 1
          /\ IF ErrorBudgetReached(consecutive_errors')
             THEN LET error_message ==
                          IF returned.none THEN "Unknown error." ELSE returned.text IN
                  /\ events' = Append(events,
                         TaskEnd(FALSE, LastErrorAbortMessage(error_message),
                                 max_consecutive_errors))
                  /\ history' = history
                  /\ pc' = "done"
             ELSE LET error_message ==
                          IF returned.none THEN "An unknown error occurred."
                                              ELSE returned.text
                      observation_content == FailedObservation(tool_name, error_message) IN
                  /\ events' = Append(events, ReactObservation(observation_content, TRUE))
                  /\ history' = Append(history,
                                       ToolResultMessage(tool_name, observation_content))
                  /\ pc' = "loop"
    /\ UNCHANGED <<max_turns, tools, turn_count, tool_name, user_choice, retval,
                   model_calls, dispatches>>
    /\ UNCHANGED components

\* ToolCompletes without the return after the TaskEnd
ToolCompletes_continues ==
    /\ pc = "dispatch"
    /\ TrailingCount(events, "tool_progress") = MaxProgress
    /\ \E result \in ToolResults :
          LET returned == call_tool(tool_name, TRUE, FALSE, result).result IN
          /\ call_tool(tool_name, TRUE, FALSE, result).raised = ""
          /\ exec_result' = returned
          /\ ~is_error(returned)
          /\ returned.kind = "completion"
          /\ events' = events \o
                 <<ReactObservation(CompletionObservation, FALSE),
                   TaskEnd(TRUE, <<returned.text>>, 0)>>
    /\ trace' = Append(trace, "completion")
    /\ consecutive_errors' = 0
    /\ pc' = "loop"
    /\ UNCHANGED <<max_turns, tools, history, turn_count, tool_name, user_choice,
                   retval, model_calls, dispatches>>
    /\ UNCHANGED components

\* call_tool returns a successful result carrying _is_completion_signal
ToolCompletes ==
    /\ pc = "dispatch"
    /\ TrailingCount(events, "tool_progress") = MaxProgress
    /\ \E result \in ToolResults :
          LET returned == call_tool(tool_name, TRUE, FALSE, result).result IN
          /\ call_tool(tool_name, TRUE, FALSE, result).raised = ""
          /\ exec_result' = returned
          /\ ~is_error(returned)
          /\ returned.kind = "completion"
          /\ events' = events \o
                 <<ReactObservation(CompletionObservation, FALSE),
                   TaskEnd(TRUE, <<returned.text>>, 0)>>
    /\ trace' = Append(trace, "completion")
    /\ consecutive_errors' = 0
    /\ retval' = [has |-> TRUE, value |-> history]
    /\ pc' = "done"
    /\ UNCHANGED <<max_turns, tools, history, turn_count, tool_name, user_choice,
                   model_calls, dispatches>>
    /\ UNCHANGED components

\* ToolAsksUser without the reset of consecutive_errors
ToolAsksUser_keeps_errors ==
    /\ pc = "dispatch"
    /\ TrailingCount(events, "tool_progress") = MaxProgress
    /\ \E result \in ToolResults :
          LET returned == call_tool(tool_name, TRUE, FALSE, result).result IN
          /\ call_tool(tool_name, TRUE, FALSE, result).raised = ""
          /\ exec_result' = returned
          /\ ~is_error(returned)
          /\ returned.kind = "interactive"
          /\ CountOf(events, "USER_INTERACTION") < MaxInteractive
          /\ events' = Append(events, InteractionData(returned.text))
    /\ trace' = Append(trace, "interactive")
    /\ pc' = "suspended"
    /\ UNCHANGED <<max_turns, tools, history, turn_count, consecutive_errors,
                   tool_name, user_choice, retval, model_calls, dispatches>>
    /\ UNCHANGED components

\* call_tool returns a successful result carrying _is_interactive_request:
\* the payload is yielded and the generator stays at that yield
ToolAsksUser ==
    /\ pc = "dispatch"
    /\ TrailingCount(events, "tool_progress") = MaxProgress
    /\ \E result \in ToolResults :
          LET returned == call_tool(tool_name, TRUE, FALSE, result).result IN
          /\ call_tool(tool_name, TRUE, FALSE, result).raised = ""
          /\ exec_result' = returned
          /\ ~is_error(returned)
          /\ returned.kind = "interactive"
          /\ CountOf(events, "USER_INTERACTION") < MaxInteractive
          /\ events' = Append(events, InteractionData(returned.text))
    /\ trace' = Append(trace, "interactive")
    /\ consecutive_errors' = 0
    /\ pc' = "suspended"
    /\ UNCHANGED <<max_turns, tools, history, turn_count, tool_name, user_choice,
                   retval, model_calls, dispatches>>
    /\ UNCHANGED components

\* the resumption that appends the user's reply behind the tool-result entry
ResumeWith_reply_last(choice) ==
    /\ pc = "suspended"
    /\ user_choice' = choice
    /\ IF Truthy(choice)
       THEN LET observation_content == UserRespondedObservation(choice[1]) IN
            /\ history' = history \o
                   <<ToolResultMessage(tool_name, observation_content),
                     Entry("user", <<<<choice[1]>>>>, FALSE)>>
            /\ events' = Append(events, ReactObservation(observation_content, FALSE))
       ELSE /\ history' = Append(history,
                                 ToolResultMessage(tool_name, ResumedObservation))
            /\ events' = Append(events, ReactObservation(ResumedObservation, FALSE))
    /\ trace' = Append(trace, "resumed")
    /\ pc' = "loop"
    /\ UNCHANGED <<max_turns, tools, turn_count, consecutive_errors, tool_name,
                   retval, model_calls, dispatches, exec_result>>
    /\ UNCHANGED components

\* the suspended generator is resumed with the value choice
ResumeWith(choice) ==
    /\ pc = "suspended"
    /\ user_choice' = choice
    /\ IF Truthy(choice)
       THEN LET observation_content == UserRespondedObservation(choice[1]) IN
            /\ history' = history \o
                   <<Entry("user", <<<<choice[1]>>>>, FALSE),
                     ToolResultMessage(tool_name, observation_content)>>
            /\ events' = Append(events, ReactObservation(observation_content, FALSE))
       ELSE /\ history' = Append(history,
                                 ToolResultMessage(tool_name, ResumedObservation))
            /\ events' = Append(events, ReactObservation(ResumedObservation, FALSE))
    /\ trace' = Append(trace, "resumed")
    /\ pc' = "loop"
    /\ UNCHANGED <<max_turns, tools, turn_count, consecutive_errors, tool_name,
                   retval, model_calls, dispatches, exec_result>>
    /\ UNCHANGED components

\* the host resumes the suspended generator with next() or send(s)
Resume == \E choice \in UserChoices : ResumeWith(choice)

\* ToolSucceeds without the reset of consecutive_errors
ToolSucceeds_keeps_errors ==
    /\ pc = "dispatch"
    /\ TrailingCount(events, "tool_progress") = MaxProgress
    /\ \E result \in ToolResults :
          LET returned == call_tool(tool_name, TRUE, FALSE, result).result
              observation_content == <<returned.text>> IN
          /\ call_tool(tool_name, TRUE, FALSE, result).raised = ""
          /\ exec_result' = returned
          /\ ~is_error(returned)
          /\ returned.kind = "plain"
          /\ events' = Append(events, ReactObservation(observation_content, FALSE))
          /\ history' = Append(history, ToolResultMessage(tool_name, observation_content))
    /\ trace' = Append(trace, "ok")
    /\ pc' = "loop"
    /\ UNCHANGED <<max_turns, tools, turn_count, consecutive_errors, tool_name,
                   user_choice, retval, model_calls, dispatches>>
    /\ UNCHANGED components

\* call_tool returns an ordinary successful result
ToolSucceeds ==
    /\ pc = "dispatch"
    /\ TrailingCount(events, "tool_progress") = MaxProgress
    /\ \E result \in ToolResults :
          LET returned == call_tool(tool_name, TRUE, FALSE, result).result
              observation_content == <<returned.text>> IN
          /\ call_tool(tool_name, TRUE, FALSE, result).raised = ""
          /\ exec_result' = returned
          /\ ~is_error(returned)
          /\ returned.kind = "plain"
          /\ events' = Append(events, ReactObservation(observation_content, FALSE))
          /\ history' = Append(history, ToolResultMessage(tool_name, observation_content))
    /\ trace' = Append(trace, "ok")
    /\ consecutive_errors' = 0
    /\ pc' = "loop"
    /\ UNCHANGED <<max_turns, tools, turn_count, tool_name, user_choice, retval,
                   model_calls, dispatches>>
    /\ UNCHANGED components

Next ==
    \/ Begin
    \/ Enter
    \/ TurnLimit
    \/ CallModel
    \/ ModelChunk
    \/ ModelRaises
    \/ ModelReplyNoAction
    \/ ModelReplyAction
    \/ ToolProgress
    \/ ToolRaises
    \/ ToolFails
    \/ ToolCompletes
    \/ ToolAsksUser
    \/ Resume
    \/ ToolSucceeds

Spec == Init /\ [][Next]_vars


(***************************************************************************)
(* Properties.                                                             *)
(***************************************************************************)
\* inputs that make a turn a failed turn
FailedTurns == {"no_action", "tool_failed", "tool_none"}

\* number of consecutive failed turns at the end of an input trace
TrailingFailures(tr) ==
    CHOOSE k \in 0..Len(tr) :
        /\ \A i \in (Len(tr) - k + 1)..Len(tr) : tr[i] \in FailedTurns
        /\ k < Len(tr) => tr[Len(tr) - k] \notin FailedTurns

LastInput == IF trace = <<>> THEN "" ELSE Last(trace)

IsTaskEnd(e) == e.subtype = "end"

\* a TaskEnd whose final message is the consecutive-error one, with its count
IsErrorBudgetEnd(e) ==
    /\ IsTaskEnd(e)
    /\ ~e.flag
    /\ e.n = max_consecutive_errors
    /\ e.text[1] \in {NoActionAbortMessage[1], LastErrorAbortMessage("")[1]}

\* trace ends with four failed turns followed by one ordinary success
FourFailuresThenSuccess ==
    /\ Len(trace) >= 5
    /\ Last(trace) = "ok"
    /\ TrailingFailures(SubSeq(trace, 1, Len(trace) - 1)) = 4

\* C1: every run driven to exhaustion has emitted exactly one TaskEnd, as
\* its last event, on every path, including the paths where the model call
\* or the dispatcher raises.
C1_ExactlyOneTaskEnd ==
    /\ CountOf(events, "end") <= 1
    /\ CountOf(events, "end") = 1 => IsTaskEnd(Last(events))
    /\ pc = "done" => CountOf(events, "end") = 1

\* C2: the consecutive-error TaskEnd (success false, count 5 in the message)
\* has been emitted exactly when the input trace ends with 5 consecutive
\* failed turns; four failed turns followed by one ordinary success leave
\* the task running: at the top of the loop, or in the next turn.
C2_ErrorBudget ==
    /\ TrailingFailures(trace) <= max_consecutive_errors
    /\ (TrailingFailures(trace) = max_consecutive_errors)
          <=> (\E i \in DOMAIN events : IsErrorBudgetEnd(events[i]))
    /\ TrailingFailures(trace) = max_consecutive_errors
          => pc = "done" /\ IsErrorBudgetEnd(Last(events))
    /\ FourFailuresThenSuccess =>
          /\ \A i \in DOMAIN events : ~IsErrorBudgetEnd(events[i])
          /\ \/ pc = "loop"
             \/ pc \in {"await_model", "dispatch"} /\ model_calls = turn_count
             \/ pc = "done" /\ turn_count > max_turns

C2_Witness ==
    /\ TrailingFailures(trace) = max_consecutive_errors
    /\ IsErrorBudgetEnd(Last(events))

C2_Witness_Recovery ==
    /\ FourFailuresThenSuccess
    /\ pc = "await_model"
    /\ CountOf(events, "end") = 0

\* C3: consecutive_errors grows by exactly 1 with every failed turn (no
\* action, failed tool result) and is set to 0 by every ordinary success,
\* interactive request and completion signal; at the start of every turn it
\* lies in 0..max_consecutive_errors-1 and equals the number of consecutive
\* failed turns that immediately precede.
C3_Counter ==
    /\ [](pc = "loop" =>
            /\ consecutive_errors \in 0..(max_consecutive_errors - 1)
            /\ consecutive_errors = TrailingFailures(trace))
    /\ [][trace' # trace =>
            /\ Last(trace') \in FailedTurns
                  => consecutive_errors' = consecutive_errors + 1
            /\ Last(trace') \in {"ok", "interactive", "completion"}
                  => consecutive_errors' = 0]_vars

C3_Witness ==
    /\ pc = "loop"
    /\ consecutive_errors = max_consecutive_errors - 1
    /\ \E i \in DOMAIN trace : trace[i] = "ok"
    /\ \E i \in DOMAIN trace : trace[i] = "no_action"
    /\ \E i \in DOMAIN trace : trace[i] = "tool_failed"

\* C4: a completion signal with result R makes the loop emit an observation
\* and then TaskEnd(success, R), return the conversation history and stop:
\* no model call and no dispatch follows, whatever consecutive_errors and
\* turn_count were.
C4_Completion ==
    /\ [](LastInput = "completion" =>
            /\ pc = "done"
            /\ exec_result.kind = "completion"
            /\ Len(events) >= 2
            /\ events[Len(events) - 1] = ReactObservation(CompletionObservation, FALSE)
            /\ Last(events) = TaskEnd(TRUE, <<exec_result.text>>, 0)
            /\ CountOf(events, "end") = 1
            /\ retval = [has |-> TRUE, value |-> history])
    /\ [][LastInput = "completion" =>
            model_calls' = model_calls /\ dispatches' = dispatches]_vars

C4_Witness ==
    /\ LastInput = "completion"
    /\ pc = "done"
    /\ turn_count = max_turns
    /\ TrailingFailures(SubSeq(trace, 1, Len(trace) - 1)) = max_consecutive_errors - 1
    /\ Last(events).text = <<"R2">>

\* C5: when turn_count exceeds max_turns at the top of an iteration the
\* task ends with TaskEnd(success false) and the maximum-total-turns
\* message, also with consecutive_errors = 0; that iteration calls neither
\* the model nor a tool; the message differs from the consecutive-error one.
C5_TurnBudget ==
    /\ [](turn_count > max_turns =>
            /\ pc = "done"
            /\ Last(events) = TaskEnd(FALSE, MaxTurnsMessage, max_turns)
            /\ ~IsErrorBudgetEnd(Last(events))
            /\ model_calls = max_turns)
    /\ []((\E i \in DOMAIN events :
              IsTaskEnd(events[i]) /\ events[i].text = MaxTurnsMessage)
            => turn_count = max_turns + 1)
    /\ [][turn_count' > max_turns =>
            /\ model_calls' = model_calls
            /\ dispatches' = dispatches
            /\ history' = history]_vars

C5_Witness ==
    /\ turn_count > max_turns
    /\ consecutive_errors = 0
    /\ Last(events) = TaskEnd(FALSE, MaxTurnsMessage, max_turns)

\* C6: turn_count starts at 0, grows by exactly 1 at the top of every loop
\* iteration (after a no-action turn and after a resumed interactive
\* request as well), never decreases, and the number of model calls never
\* exceeds max_turns.
C6_TurnCount ==
    /\ (turn_count = 0)
    /\ [](model_calls <= max_turns /\ turn_count - model_calls \in {0, 1})
    /\ [][/\ pc = "loop" => turn_count' = turn_count + 1
          /\ pc # "loop" => turn_count' = turn_count]_vars

C6_Witness ==
    /\ pc = "await_model"
    /\ turn_count = max_turns
    /\ model_calls = max_turns
    /\ Len(trace) >= 3
    /\ trace[Len(trace)] = "no_action"
    /\ trace[Len(trace) - 1] = "resumed"

\* C7: when call_tool raises, the turn is handled as a tool failure:
\* consecutive_errors is incremented, an error observation naming the tool
\* is appended to the history, and the loop continues or ends with a
\* TaskEnd.
C7_DispatcherRaiseIsToolFailure ==
    LastInput = "tool_raised" =>
        /\ consecutive_errors =
              TrailingFailures(SubSeq(trace, 1, Len(trace) - 1)) + 1
        /\ \/ /\ pc = "loop"
              /\ Last(history).multipart
              /\ Last(history).content[1] = <<"Result:", tool_name>>
              /\ Last(history).content[2][2] = tool_name
           \/ /\ pc = "done"
              /\ IsErrorBudgetEnd(Last(events))

\* C8: when the model call raises, consecutive_errors is unchanged, no
\* retry observation is appended, and the task ends in a terminal failure
\* event that the host receives.
C8_TransportFailure ==
    [][trace' = Append(trace, "model_raised") =>
          /\ consecutive_errors' = consecutive_errors
          /\ history' = history
          /\ pc' = "done"
          /\ Last(events').subtype \in {"end", "error"}
          /\ ~Last(events').flag]_vars

\* C9: an interactive request resets consecutive_errors, hands the payload
\* to the host and suspends; while suspended nothing happens, and the only
\* step out of the suspension is the host's resumption.
C9_Suspension ==
    /\ [](pc = "suspended" =>
            /\ consecutive_errors = 0
            /\ exec_result.kind = "interactive"
            /\ Last(events) = InteractionData(exec_result.text)
            /\ LastInput = "interactive")
    /\ [][LastInput # "interactive" /\ trace' = Append(trace, "interactive") =>
            /\ pc' = "suspended"
            /\ history' = history
            /\ model_calls' = model_calls
            /\ dispatches' = dispatches]_vars
    /\ [][pc = "suspended" =>
            /\ trace' = Append(trace, "resumed")
            /\ model_calls' = model_calls
            /\ dispatches' = dispatches]_vars

C9_Witness ==
    /\ pc = "suspended"
    /\ Len(trace) >= 3
    /\ trace[Len(trace) - 1] \in FailedTurns
    /\ trace[Len(trace) - 2] \in FailedTurns

\* C10: on resumption every string s the host sends is appended as the
\* entry {role: user, content: s}; when nothing is sent no user entry is
\* appended and the observation is the "Resumed without user input" one; the
\* task goes on with consecutive_errors = 0.
C10_Resumption ==
    [][pc = "suspended" =>
          /\ pc' = "loop"
          /\ consecutive_errors' = 0
          /\ user_choice' # <<>> =>
                /\ Len(history') = Len(history) + 2
                /\ history'[Len(history) + 1] =
                      Entry("user", <<<<user_choice'[1]>>>>, FALSE)
          /\ user_choice' = <<>> =>
                /\ history' = Append(history,
                                     ToolResultMessage(tool_name, ResumedObservation))
                /\ Last(events') = ReactObservation(ResumedObservation, FALSE)]_vars


(***************************************************************************)
(* ToolManager.call_tool, one call, step by step.                          *)
(*                                                                         *)
(* call_tool is a generator: it looks the tool up, validates the           *)
(* arguments, calls tool.run and delegates to what run returned with       *)
(* `yield from`.  The whole of validation and delegation sits in one try   *)
(* block whose handler raises ToolArgumentValidationError.                 *)
(***************************************************************************)
\* longest sequence of progress events one tool run yields
MaxScript == 2

\* the tools the chat endpoint registers in database-agnostic mode
DispatchRegistry ==
    {"ask_for_human_feedback", "plan_mode_response",
     "attempt_completion", "search_knowledge_base"}

\* a name no tool is registered under
UnregisteredNames == {"no_such_tool"}

\* run of these tools is an ordinary function returning an ExecutionResult;
\* run of every other tool is a generator (a generator function, or a
\* function wrapped by ensure_generator)
PlainTools == {"ask_for_human_feedback", "plan_mode_response"}

\* progress events a generator tool may yield
ProgressItems == {"p1", "p2"}

\* the keyword fields the interactive tools build their ExecutionResult with
ResultFields == <<"success", "data">>

RECURSIVE SeqsUpTo(_, _)
\* all sequences over S of length at most n
SeqsUpTo(S, n) ==
    IF n = 0 THEN {<<>>}
    ELSE LET shorter == SeqsUpTo(S, n - 1) IN
         shorter \cup {Append(q, x) : q \in shorter, x \in S}

\* what run of the tool called name hands back when it does not raise
RunResults(name) ==
    IF name \in PlainTools
    THEN {ExecutionResult(TRUE, "interactive", q) : q \in AskTexts}
    ELSE IF name = "attempt_completion"
         THEN {ExecutionResult(TRUE, "completion", r) : r \in ResultTexts}
         ELSE {ExecutionResult(FALSE, "plain", e) : e \in ErrorTexts}
              \cup {ExecutionResult(TRUE, "plain", d) : d \in DataTexts}

\* the events run of the tool called name yields before it returns: the
\* knowledge base search streams the retrieval's status events, the other
\* tools yield nothing
RunScripts(name) ==
    IF name = "search_knowledge_base" THEN SeqsUpTo(ProgressItems, MaxScript)
    ELSE {<<>>}

\* the calls explored: a name, arguments that pass the schema or not, and
\* the behaviour of the tool's run
DispatchCalls ==
    {[CtIdle EXCEPT !.pc = "called", !.name = n, !.args_valid = v,
                    !.yields = y, !.script = y, !.run_raises = x, !.result = r] :
        n \in UnregisteredNames, v \in BOOLEAN, y \in {<<>>}, x \in {FALSE},
        r \in {NoneResult}}
    \cup UNION {
        {[CtIdle EXCEPT !.pc = "called", !.name = n, !.args_valid = v,
                        !.yields = y, !.script = y, !.run_raises = x, !.result = r] :
            v \in BOOLEAN, y \in RunScripts(n), x \in BOOLEAN, r \in RunResults(n)}
        : n \in DispatchRegistry}

\* the loop's variables, untouched while another component is explored
LoopAtRest ==
    /\ pc = "init"
    /\ max_turns = MaxTurns
    /\ history = <<>>
    /\ events = <<>>
    /\ turn_count = 0
    /\ consecutive_errors = 0
    /\ tool_name = ""
    /\ exec_result = NoneResult
    /\ user_choice = <<>>
    /\ retval = NoReturn
    /\ trace = <<>>
    /\ model_calls = 0
    /\ dispatches = 0

loopvars == <<pc, max_turns, tools, history, events, turn_count, consecutive_errors,
              tool_name, exec_result, user_choice, retval, trace, model_calls, dispatches>>

InitDispatch ==
    /\ LoopAtRest
    /\ tools = DispatchRegistry
    /\ ct \in DispatchCalls
    /\ sel = SelIdle
    /\ spl = SplIdle
    /\ host = HostDirect
    /\ UnitsAtRest

\* the except clause of call_tool: whatever was raised inside the try block
CtExcept == [ct EXCEPT !.pc = "raised", !.raised = "ToolArgumentValidationError"]

\* if tool_name not in self.tools: raise ToolNotFoundError
CtLookup ==
    /\ ct.pc = "called"
    /\ ct' = IF ct.name \notin tools
             THEN [ct EXCEPT !.pc = "raised", !.raised = "ToolNotFoundError"]
             ELSE [ct EXCEPT !.pc = "validate"]
    /\ UNCHANGED <<loopvars, sel, spl, host, units>>

\* tool.args_schema.model_validate(args), then the call tool.run(validated_args)
CtValidate ==
    /\ ct.pc = "validate"
    /\ ct' = IF ~ct.args_valid
             THEN [CtExcept EXCEPT !.validated = TRUE]
             ELSE [ct EXCEPT !.pc = "run", !.validated = TRUE, !.started = TRUE]
    /\ UNCHANGED <<loopvars, sel, spl, host, units>>

\* yield from a generator: the next event of the tool goes to the caller
CtForward ==
    /\ ct.pc \in {"run", "iterate"}
    /\ ct.pc = "run" => ct.name \notin PlainTools
    /\ ct.script # <<>>
    /\ ct' = [ct EXCEPT !.forwarded = Append(ct.forwarded, Head(ct.script)),
                        !.script = Tail(ct.script)]
    /\ UNCHANGED <<loopvars, sel, spl, host, units>>

\* the tool raises while it runs, at any point before it returns
CtRunRaises ==
    /\ ct.pc = "run"
    /\ ct.run_raises
    /\ ct' = CtExcept
    /\ UNCHANGED <<loopvars, sel, spl, host, units>>

\* the tool's generator returns: z = yield from ...; return z
CtReturn ==
    /\ ct.pc \in {"run", "iterate"}
    /\ ct.pc = "run" => ct.name \notin PlainTools /\ ~ct.run_raises
    /\ ct.script = <<>>
    /\ ct' = [ct EXCEPT !.pc = "returned",
                        !.returned = <<IF ct.pc = "iterate" THEN NoneResult
                                       ELSE ct.result>>]
    /\ UNCHANGED <<loopvars, sel, spl, host, units>>

\* yield from an ExecutionResult that run returned directly.  The class is
\* either not iterable (TypeError, caught by the except clause) or iterable
\* over its fields, which are then forwarded as events while the value of
\* the yield from expression is None.
CtYieldFromPlain ==
    /\ ct.pc = "run"
    /\ ct.name \in PlainTools
    /\ ~ct.run_raises
    /\ \/ ct' = CtExcept
       \/ ct' = [ct EXCEPT !.pc = "iterate", !.script = ResultFields]
    /\ UNCHANGED <<loopvars, sel, spl, host, units>>

NextDispatch ==
    \/ CtLookup
    \/ CtValidate
    \/ CtForward
    \/ CtRunRaises
    \/ CtReturn
    \/ CtYieldFromPlain

SpecDispatch == InitDispatch /\ [][NextDispatch]_vars

\* the call has ended
CtEnded == ct.pc \in {"returned", "raised"}

\* C11: call_tool looks up, then validates, then executes: an unregistered
\* name raises ToolNotFoundError with nothing validated or run; failed
\* validation means run was never started; otherwise the events the tool
\* yields are forwarded in order, all before the result, and the call
\* returns exactly one result, the tool's ExecutionResult.
C11_LookupValidateRun ==
    /\ ct.started => ct.validated
    /\ ct.validated => ct.name \in tools
    /\ ct.returned # <<>> => ct.forwarded = ct.yields
    /\ CtEnded /\ ct.name \notin tools =>
          ct.raised = "ToolNotFoundError" /\ ~ct.validated /\ ~ct.started
    /\ CtEnded /\ ct.name \in tools /\ ~ct.args_valid =>
          ct.raised = "ToolArgumentValidationError" /\ ~ct.started
    /\ CtEnded /\ ct.name \in tools /\ ct.args_valid /\ ~ct.run_raises =>
          /\ ct.pc = "returned"
          /\ ct.forwarded = ct.yields
          /\ ct.returned = <<ct.result>>

\* C12: call_tool raises ToolArgumentValidationError if and only if the
\* arguments fail the tool's schema; an exception raised while the tool
\* executes is not reported as ToolArgumentValidationError.
C12_ValidationErrorOnlyForValidation ==
    CtEnded =>
        (ct.raised = "ToolArgumentValidationError"
            <=> (ct.name \in tools /\ ~ct.args_valid))

\* C13: for a tool whose run returns an ExecutionResult directly, call_tool
\* forwards zero events and returns that same result, as it does for a
\* generator tool that yields nothing and returns the same result.
C13_OneShapeForEveryTool ==
    CtEnded /\ ct.name \in tools /\ ct.args_valid /\ ~ct.run_raises
            /\ ct.yields = <<>> =>
        /\ ct.pc = "returned"
        /\ ct.forwarded = <<>>
        /\ ct.returned = <<ct.result>>


(***************************************************************************)
(* The streaming endpoints (interactive_chat and run_interactive_sql_task). *)
(*                                                                         *)
(* event_generator starts a worker thread that iterates execute_task with  *)
(* a for loop and puts every update on an unbounded queue, followed by     *)
(* None once the generator is exhausted.  The endpoint's own loop polls    *)
(* the connection and the queue.  Everything put on the queue is the       *)
(* events yielded so far followed by host.tail, what the worker's except   *)
(* and finally clauses put; host.delivered is the number of items taken    *)
(* and host.sent the server-sent events produced from them.                *)
(***************************************************************************)
\* self.max_turns of the executor behind the endpoint in the runs explored
StreamTurns == 2

InitStream ==
    /\ pc = "init"
    /\ max_turns = StreamTurns
    /\ tools = ToolRegistry
    /\ history \in {<<>>, <<Entry("user", <<<<user_input>>>>, FALSE)>>}
    /\ events = <<>>
    /\ turn_count = 0
    /\ consecutive_errors = 0
    /\ tool_name = ""
    /\ exec_result = NoneResult
    /\ user_choice = <<>>
    /\ retval = NoReturn
    /\ trace = <<>>
    /\ model_calls = 0
    /\ dispatches = 0
    /\ ct = CtIdle
    /\ sel = SelIdle
    /\ spl = SplIdle
    /\ host = [HostDirect EXCEPT !.mode = "stream"]
    /\ UnitsAtRest

\* a worker that would send a reply into the suspended generator
ThreadResume_sends_reply == \E choice \in UserChoices : ResumeWith(choice)

\* the worker's for loop resumes a suspended generator with next()
ThreadResume == ResumeWith(<<>>)

\* the client goes away
ClientDisconnects ==
    /\ host.mode = "stream"
    /\ host.client = "connected"
    /\ host' = [host EXCEPT !.client = "disconnected"]
    /\ UNCHANGED <<loopvars, ct, sel, spl, units>>

\* if await fastapi_request.is_disconnected(): break
HostDetectsDisconnect ==
    /\ host.mode = "stream"
    /\ host.consumer = "polling"
    /\ host.client = "disconnected"
    /\ host' = [host EXCEPT !.consumer = "stopped"]
    /\ UNCHANGED <<loopvars, ct, sel, spl, units>>

\* q.put(e) of the except clause
ExceptionItem == Event("Exception", TRUE, <<"error">>, 0)

\* q.put(None) of the finally clause
NoneItem == Event("None", FALSE, <<>>, 0)

\* everything the worker has put on the queue, in the order of the puts
Queue == events \o host.tail

\* the server-sent event produced from a queued item
Emit(update) ==
    IF update = ExceptionItem THEN Event("error", TRUE, update.text, 0) ELSE update

\* the thread's set-up or the generator's prologue raises before TaskStart is
\* yielded: except Exception as e: q.put(e)
ThreadRaises ==
    /\ host.mode = "stream"
    /\ host.thread = "running"
    /\ pc = "init"
    /\ pc' = "done"
    /\ host' = [host EXCEPT !.thread = "finally", !.tail = Append(host.tail, ExceptionItem)]
    /\ UNCHANGED <<max_turns, tools, history, events, turn_count, consecutive_errors,
                   tool_name, retval, trace, model_calls, dispatches, user_choice,
                   exec_result>>
    /\ UNCHANGED <<ct, sel, spl, units>>

\* the generator is exhausted and the for loop ends
ThreadLoopEnds ==
    /\ host.mode = "stream"
    /\ host.thread = "running"
    /\ pc = "done"
    /\ host' = [host EXCEPT !.thread = "finally"]
    /\ UNCHANGED <<loopvars, ct, sel, spl, units>>

\* a finally clause that puts the end signal twice
ThreadPutsSentinel_twice ==
    /\ host.mode = "stream"
    /\ host.thread = "finally"
    /\ host' = [host EXCEPT !.thread = "finished",
                            !.tail = host.tail \o <<NoneItem, NoneItem>>]
    /\ UNCHANGED <<loopvars, ct, sel, spl, units>>

\* finally: q.put(None)
ThreadPutsSentinel ==
    /\ host.mode = "stream"
    /\ host.thread = "finally"
    /\ host' = [host EXCEPT !.thread = "finished", !.tail = Append(host.tail, NoneItem)]
    /\ UNCHANGED <<loopvars, ct, sel, spl, units>>

\* a consumer that takes the newest item of the queue
HostDelivers_newest ==
    /\ host.mode = "stream"
    /\ host.consumer = "polling"
    /\ host.client = "connected"
    /\ host.delivered < Len(Queue)
    /\ Last(Queue).subtype \notin {"None", "Exception"}
    /\ host' = [host EXCEPT !.delivered = Len(Queue),
                            !.sent = Append(host.sent, Emit(Last(Queue)))]
    /\ UNCHANGED <<loopvars, ct, sel, spl, units>>

\* update = q.get_nowait(); yield the update as a server-sent event
HostDelivers ==
    /\ host.mode = "stream"
    /\ host.consumer = "polling"
    /\ host.client = "connected"
    /\ host.delivered < Len(Queue)
    /\ LET update == Queue[host.delivered + 1] IN
       /\ update.subtype \notin {"None", "Exception"}
       /\ host' = [host EXCEPT !.delivered = host.delivered + 1,
                               !.sent = Append(host.sent, Emit(update))]
    /\ UNCHANGED <<loopvars, ct, sel, spl, units>>

\* if update is None: break
HostSeesEnd ==
    /\ host.mode = "stream"
    /\ host.consumer = "polling"
    /\ host.client = "connected"
    /\ host.delivered < Len(Queue)
    /\ Queue[host.delivered + 1] = NoneItem
    /\ host' = [host EXCEPT !.delivered = host.delivered + 1, !.consumer = "stopped"]
    /\ UNCHANGED <<loopvars, ct, sel, spl, units>>

\* if isinstance(update, Exception): yield the error event; break
HostSeesException ==
    /\ host.mode = "stream"
    /\ host.consumer = "polling"
    /\ host.client = "connected"
    /\ host.delivered < Len(Queue)
    /\ Queue[host.delivered + 1] = ExceptionItem
    /\ host' = [host EXCEPT !.delivered = host.delivered + 1, !.consumer = "stopped",
                            !.sent = Append(host.sent, Emit(ExceptionItem))]
    /\ UNCHANGED <<loopvars, ct, sel, spl, units>>

NextStream ==
    \/ Begin
    \/ Enter
    \/ TurnLimit
    \/ CallModel
    \/ ModelChunk
    \/ ModelRaises
    \/ ModelReplyNoAction
    \/ ModelReplyAction
    \/ ToolProgress
    \/ ToolRaises
    \/ ToolFails
    \/ ToolCompletes
    \/ ToolAsksUser
    \/ ThreadResume
    \/ ToolSucceeds
    \/ ClientDisconnects
    \/ HostDetectsDisconnect
    \/ HostDelivers
    \/ HostSeesEnd
    \/ HostSeesException
    \/ ThreadRaises
    \/ ThreadLoopEnds
    \/ ThreadPutsSentinel

SpecStream == InitStream /\ [][NextStream]_vars

\* the endpoint has seen the disconnection and left its polling loop
HostStoppedOnDisconnect ==
    host.consumer = "stopped" /\ host.client = "disconnected"

\* C14: once the host has detected that the client disconnected and has
\* stopped consuming the output stream, the agent loop issues no new model
\* call and no new tool dispatch.
C14_NoNewWorkAfterDisconnect ==
    [][HostStoppedOnDisconnect =>
          model_calls' = model_calls /\ dispatches' = dispatches]_vars

\* the positions in the queue of the interactive payloads
InteractionPositions == {i \in DOMAIN events : events[i].subtype = "USER_INTERACTION"}

\* C35: under the streaming endpoints the interactive payload is put on the
\* queue like any other event, and the only step the suspended generator
\* takes is a resumption with no value: it appends the 'Resumed without user
\* input' observation, adds no user reply and returns to the top of the loop.
C35_ResumedWithoutInput ==
    [][pc = "suspended" =>
          /\ Last(events).subtype = "USER_INTERACTION"
          /\ loopvars' # loopvars =>
                /\ user_choice' = <<>>
                /\ history' = Append(history,
                                     ToolResultMessage(tool_name, ResumedObservation))
                /\ events' = Append(events, ReactObservation(ResumedObservation, FALSE))
                /\ pc' = "loop"
                /\ model_calls' = model_calls]_vars

\* an interactive payload was delivered to the client as a server-sent event
\* and the run went on to another model call
C35_Witness ==
    /\ host.mode = "stream"
    /\ \E i \in InteractionPositions :
          /\ host.delivered >= i
          /\ i < Len(events)
          /\ events[i + 1] = ReactObservation(ResumedObservation, FALSE)
    /\ Last(history) = ToolResultMessage(tool_name, ResumedObservation)
    /\ pc = "await_model"

\* one pass of the endpoint's loop, which polls the connection and the queue
\* every 50 ms for as long as it has not left the loop
HostPolls ==
    \/ HostDetectsDisconnect
    \/ HostDelivers
    \/ HostSeesEnd
    \/ HostSeesException

\* the streaming endpoint with an event loop that keeps running the consumer
SpecStreamFair == InitStream /\ [][NextStream]_vars /\ WF_vars(HostPolls)

\* where the end signal stands in the queue
SentinelPositions == {i \in DOMAIN Queue : Queue[i] = NoneItem}

\* what the worker has put and what the consumer has made of it
QueueDiscipline ==
    /\ Cardinality(SentinelPositions) <= 1
    /\ host.thread = "finished" => SentinelPositions = {Len(Queue)}
    /\ host.thread # "finished" => SentinelPositions = {}
    /\ \A i \in DOMAIN Queue :
          Queue[i] = ExceptionItem =>
              \/ i = Len(Queue) /\ host.thread = "finally"
              \/ i = Len(Queue) - 1 /\ Queue[i + 1] = NoneItem
    /\ Len(host.sent) <= Len(Queue)
    /\ \A k \in DOMAIN host.sent : host.sent[k] = Emit(Queue[k])
    /\ host.consumer = "polling" => Len(host.sent) = host.delivered
    /\ host.consumer = "stopped" /\ host.client = "connected" =>
          /\ host.delivered >= 1
          /\ \/ /\ Queue[host.delivered] = NoneItem
                /\ Len(host.sent) = host.delivered - 1
             \/ /\ Queue[host.delivered] = ExceptionItem
                /\ Len(host.sent) = host.delivered
    /\ host.thread = "finished" /\ host.consumer = "polling" =>
          host.delivered < Len(Queue)

\* C36: the worker puts exactly one end signal and puts it last, behind the
\* exception object if it caught one; the consumer emits the queued updates in
\* the order of the puts, skipping none, and stops at the first end signal or
\* exception; once the worker has finished the consumer leaves its loop.
C36_SentinelLastAndStreamEnds ==
    /\ []QueueDiscipline
    /\ (host.thread = "finished") ~> (host.consumer = "stopped")

\* the consumer emitted every update of a finished run and stopped at the
\* end signal
C36_Witness ==
    /\ host.thread = "finished"
    /\ host.consumer = "stopped"
    /\ host.client = "connected"
    /\ Queue[host.delivered] = NoneItem
    /\ Len(host.sent) >= 3
    /\ host.sent = events

\* the worker caught an exception and the consumer reported it
C36_Witness_Exception ==
    /\ host.thread = "finished"
    /\ host.tail = <<ExceptionItem, NoneItem>>
    /\ host.consumer = "stopped"
    /\ host.sent = <<Emit(ExceptionItem)>>


(***************************************************************************)
(* LLMCandidateSelector._split_index_into_chunks, one loop iteration per   *)
(* step.  An index item is its position in self.all_items; index_data[i]   *)
(* is count_tokens of the serialised item.                                 *)
(***************************************************************************)
\* most index items in the catalogues explored
MaxItems == 4

MAX_TOKENS_PER_CHUNK == 128000

\* token costs of a serialised item: small, half the budget, just under
\* the budget and over it
ItemCosts == {1000, 64000, 127000, 200000}

RECURSIVE Sum(_)
\* sum of a sequence of numbers
Sum(q) == IF q = <<>> THEN 0 ELSE Head(q) + Sum(Tail(q))

RECURSIVE Flatten(_)
\* concatenation of a sequence of sequences
Flatten(qq) == IF qq = <<>> THEN <<>> ELSE Head(qq) \o Flatten(Tail(qq))

InitChunks ==
    /\ LoopAtRest
    /\ tools = ToolRegistry
    /\ ct = CtIdle
    /\ sel = SelIdle
    /\ host = HostDirect
    /\ UnitsAtRest
    /\ \E index_data \in SeqsUpTo(ItemCosts, MaxItems) :
          spl = [SplIdle EXCEPT !.pc = "loop", !.index_data = index_data]

\* the flush test without the guard on current_chunk
ChunkFull_ignores_empty(current_tokens, item_tokens, current_chunk) ==
    current_tokens + item_tokens > MAX_TOKENS_PER_CHUNK

\* if current_tokens + item_tokens > self.MAX_TOKENS_PER_CHUNK and current_chunk
ChunkFull(current_tokens, item_tokens, current_chunk) ==
    current_tokens + item_tokens > MAX_TOKENS_PER_CHUNK /\ current_chunk # <<>>

\* one iteration of `for item in self.all_items`
SplItem ==
    /\ spl.pc = "loop"
    /\ spl.i <= Len(spl.index_data)
    /\ LET item_tokens == spl.index_data[spl.i]
           flush == ChunkFull(spl.current_tokens, item_tokens, spl.current_chunk) IN
       spl' = [spl EXCEPT
                 !.chunks = IF flush THEN Append(spl.chunks, spl.current_chunk)
                            ELSE spl.chunks,
                 !.current_chunk = IF flush THEN <<spl.i>>
                                   ELSE Append(spl.current_chunk, spl.i),
                 !.current_tokens = IF flush THEN item_tokens
                                    ELSE spl.current_tokens + item_tokens,
                 !.i = spl.i + 1]
    /\ UNCHANGED <<loopvars, ct, sel, host, units>>

\* after the loop: the last chunk, if any, and return chunks
SplFinish ==
    /\ spl.pc = "loop"
    /\ spl.i > Len(spl.index_data)
    /\ spl' = [spl EXCEPT
                 !.chunks = IF spl.current_chunk # <<>>
                            THEN Append(spl.chunks, spl.current_chunk)
                            ELSE spl.chunks,
                 !.pc = "done"]
    /\ UNCHANGED <<loopvars, ct, sel, host, units>>

NextChunks ==
    \/ SplItem
    \/ SplFinish

SpecChunks == InitChunks /\ [][NextChunks]_vars

\* cumulative token cost of a chunk
ChunkCost(chunk) == Sum([k \in 1..Len(chunk) |-> spl.index_data[chunk[k]]])

\* C17: every chunk of two or more items costs at most MAX_TOKENS_PER_CHUNK;
\* a chunk exceeds the budget only if it is a single item whose own cost
\* exceeds it; every item is in exactly one chunk, no chunk is empty, and
\* the chunks concatenated are the catalogue in its order.
C17_Chunking ==
    spl.pc = "done" =>
        /\ \A c \in 1..Len(spl.chunks) :
              LET chunk == spl.chunks[c] IN
              /\ chunk # <<>>
              /\ Len(chunk) >= 2 => ChunkCost(chunk) <= MAX_TOKENS_PER_CHUNK
              /\ ChunkCost(chunk) > MAX_TOKENS_PER_CHUNK =>
                    /\ Len(chunk) = 1
                    /\ spl.index_data[chunk[1]] > MAX_TOKENS_PER_CHUNK
        /\ Flatten(spl.chunks) = [k \in 1..Len(spl.index_data) |-> k]

\* a catalogue split into a chunk filled exactly to the budget, an oversized
\* single item and a chunk that follows it
C17_Witness ==
    /\ spl.pc = "done"
    /\ Len(spl.chunks) >= 3
    /\ \E c \in 1..Len(spl.chunks) :
          Len(spl.chunks[c]) = 2 /\ ChunkCost(spl.chunks[c]) = MAX_TOKENS_PER_CHUNK
    /\ \E c \in 1..Len(spl.chunks) : ChunkCost(spl.chunks[c]) > MAX_TOKENS_PER_CHUNK


(***************************************************************************)
(* LLMCandidateSelector.select.                                            *)
(*                                                                         *)
(* sel.responses[i] is what the model answers for chunk i.  The chunks are *)
(* scored on a thread pool and as_completed hands the futures over in the  *)
(* order they finish, which is any order; sel.order records it.  The merge *)
(* loop is one step per candidate.  A dict keeps the position of a key's   *)
(* first insertion, so best_candidates is a sequence.                      *)
(***************************************************************************)
\* most chunks in the selections explored
MaxSelectChunks == 2

\* most scored candidates in the merges explored
MaxCands == 3

\* retrieve calls select with max_workers=10
RETRIEVAL_WORKERS == 10

\* file paths the index manager knows
IndexPaths == {"a", "b"}

\* an element of a response array that is a JSON object; file_path "" is an
\* object without a file_path
Cand(path, score) == [file_path |-> path, score |-> score, dict |-> TRUE]

\* an element of a response array that is not a JSON object
NotADict == [file_path |-> "", score |-> 0, dict |-> FALSE]

\* a response that is a JSON array
ArrayResponse(items) == [kind |-> "array", items |-> items]

\* the scoring request raises, the reply is not JSON, the reply is JSON but
\* not an array
FailedKinds == {"request_failed", "unparseable", "not_array"}

\* the answers explored for one chunk
ChunkResponses ==
    {[kind |-> k, items |-> <<>>] : k \in FailedKinds}
    \cup {ArrayResponse(items) : items \in
            {<<>>,
             <<Cand("a", 9)>>,
             <<Cand("a", 5), Cand("b", 7)>>,
             <<Cand("b", 9)>>,
             <<Cand("z", 8)>>,
             <<Cand("", 9)>>,
             <<NotADict>>}}

\* the scored candidates explored for the merge alone
MergeCands ==
    {Cand("a", 9), Cand("a", 5), Cand("b", 7), Cand("b", 9), Cand("z", 8),
     Cand("", 9), NotADict}

\* _select_candidates_from_chunk passing on a reply that is not a list
ChunkResult_keeps_non_array(response) ==
    IF response.kind = "array" THEN response.items
    ELSE IF response.kind = "not_array" THEN <<NotADict>>
         ELSE <<>>

\* _select_candidates_from_chunk: the parsed list, [] for anything else
ChunkResult(response) ==
    IF response.kind = "array" THEN response.items ELSE <<>>

RagSelectionProgress(processed_count, total_count, found_count) ==
    [subtype |-> "selection_progress", processed_count |-> processed_count,
     total_count |-> total_count, found_count |-> found_count]

RagSelectionEnd(candidate_count) ==
    [subtype |-> "selection_end", processed_count |-> 0,
     total_count |-> 0, found_count |-> candidate_count]

\* position of path among the keys of best, 0 if it is not a key
KeyIndex(best, path) ==
    IF \E k \in 1..Len(best) : best[k].file_path = path
    THEN CHOOSE k \in 1..Len(best) : best[k].file_path = path
    ELSE 0

\* the merge loop body where a later candidate never replaces an earlier one
Upsert_keeps_first(best, cand) ==
    IF cand.file_path = "" \/ KeyIndex(best, cand.file_path) # 0 THEN best
    ELSE Append(best, cand)

\* the merge loop body: if path: if path not in best_candidates or
\* score > best_candidates[path].get("score", 0): best_candidates[path] = cand
Upsert(best, cand) ==
    IF cand.file_path = "" THEN best
    ELSE LET k == KeyIndex(best, cand.file_path) IN
         IF k = 0 THEN Append(best, cand)
         ELSE IF cand.score > best[k].score THEN [best EXCEPT ![k] = cand]
              ELSE best

\* q without its element at position k
RemoveAt(q, k) == [j \in 1..(Len(q) - 1) |-> IF j < k THEN q[j] ELSE q[j + 1]]

RECURSIVE SortedByScore(_)
\* sorted(values, key=score, reverse=True): descending, and stable, so
\* among equal scores the earlier element comes first
SortedByScore(q) ==
    IF q = <<>> THEN <<>>
    ELSE LET first == CHOOSE k \in 1..Len(q) :
                          /\ \A j \in 1..Len(q) : q[j].score <= q[k].score
                          /\ \A j \in 1..(k - 1) : q[j].score < q[k].score
         IN <<q[first]>> \o SortedByScore(RemoveAt(q, first))

\* the conversion that keeps a candidate whatever the index manager answers
Hydrate_keeps_unknown(q) == [k \in 1..Len(q) |-> q[k].file_path]

RECURSIVE Hydrate(_)
\* get_index_by_filepath for each sorted candidate, keeping the items found
Hydrate(q) ==
    IF q = <<>> THEN <<>>
    ELSE IF Head(q).file_path \in IndexPaths
         THEN <<Head(q).file_path>> \o Hydrate(Tail(q))
         ELSE Hydrate(Tail(q))

InitSelect ==
    /\ LoopAtRest
    /\ tools = ToolRegistry
    /\ ct = CtIdle
    /\ spl = SplIdle
    /\ host = HostDirect
    /\ UnitsAtRest
    /\ \E responses \in SeqsUpTo(ChunkResponses, MaxSelectChunks) :
          sel = [SelIdle EXCEPT !.pc = "called", !.responses = responses,
                                !.max_workers = RETRIEVAL_WORKERS]

InitMerge ==
    /\ LoopAtRest
    /\ tools = ToolRegistry
    /\ ct = CtIdle
    /\ spl = SplIdle
    /\ host = HostDirect
    /\ UnitsAtRest
    /\ \E cands \in SeqsUpTo(MergeCands, MaxCands) :
          sel = [SelIdle EXCEPT !.pc = "merge", !.all_candidates_with_scores = cands]

\* no chunks: return []; otherwise the first progress event and the
\* submission of every chunk to the pool
SelStart ==
    /\ sel.pc = "called"
    /\ sel' = IF sel.responses = <<>>
              THEN [sel EXCEPT !.pc = "done"]
              ELSE [sel EXCEPT
                      !.pc = "waiting",
                      !.submitted = [k \in 1..Len(sel.responses) |-> k],
                      !.pending = 1..Len(sel.responses),
                      !.emitted = <<RagSelectionProgress(0, Len(sel.responses), 0)>>]
    /\ UNCHANGED <<loopvars, ct, spl, host, units>>

\* a worker of the pool takes a request although max_workers are running
SelWorkerStarts_unbounded ==
    /\ sel.pc = "waiting"
    /\ sel.pending \ sel.running # {}
    /\ sel' = [sel EXCEPT !.running = @ \cup {MinPos(sel.pending \ sel.running)}]
    /\ UNCHANGED <<loopvars, ct, spl, host, units>>

\* a worker of the ThreadPoolExecutor takes the oldest request of the
\* queue; the pool has at most max_workers workers
SelWorkerStarts ==
    /\ sel.pc = "waiting"
    /\ Cardinality(sel.running) < sel.max_workers
    /\ sel.pending \ sel.running # {}
    /\ sel' = [sel EXCEPT !.running = @ \cup {MinPos(sel.pending \ sel.running)}]
    /\ UNCHANGED <<loopvars, ct, spl, host, units>>

\* one iteration of `for future in as_completed(...)`: chunk i has finished
SelComplete ==
    /\ sel.pc = "waiting"
    /\ \E i \in sel.running :
          LET result == ChunkResult(sel.responses[i])
              processed_chunks == sel.processed_chunks + 1 IN
          sel' = [sel EXCEPT
                    !.pending = sel.pending \ {i},
                    !.running = sel.running \ {i},
                    !.order = Append(sel.order, i),
                    !.processed_chunks = processed_chunks,
                    !.all_candidates_with_scores =
                        IF result # <<>> THEN sel.all_candidates_with_scores \o result
                        ELSE sel.all_candidates_with_scores,
                    !.emitted =
                        IF result # <<>>
                        THEN Append(sel.emitted,
                                    RagSelectionProgress(processed_chunks,
                                                         Len(sel.responses), Len(result)))
                        ELSE sel.emitted,
                    !.pc = IF sel.pending = {i} THEN "merge" ELSE "waiting"]
    /\ UNCHANGED <<loopvars, ct, spl, host, units>>

\* one iteration of `for cand in all_candidates_with_scores`; cand.get on
\* an element that is not a dict raises AttributeError out of select
SelMerge ==
    /\ sel.pc = "merge"
    /\ sel.merged < Len(sel.all_candidates_with_scores)
    /\ LET cand == sel.all_candidates_with_scores[sel.merged + 1] IN
       sel' = IF ~cand.dict
              THEN [sel EXCEPT !.pc = "raised"]
              ELSE [sel EXCEPT !.merged = sel.merged + 1,
                               !.best_candidates = Upsert(sel.best_candidates, cand)]
    /\ UNCHANGED <<loopvars, ct, spl, host, units>>

\* sort, convert back to index items, yield RagSelectionEnd and return
SelRank ==
    /\ sel.pc = "merge"
    /\ sel.merged = Len(sel.all_candidates_with_scores)
    /\ LET sorted_candidates_list == SortedByScore(sel.best_candidates)
           final_candidates == Hydrate(sorted_candidates_list) IN
       sel' = [sel EXCEPT
                 !.sorted_candidates_list = sorted_candidates_list,
                 !.returned = final_candidates,
                 !.emitted = Append(sel.emitted, RagSelectionEnd(Len(final_candidates))),
                 !.pc = "done"]
    /\ UNCHANGED <<loopvars, ct, spl, host, units>>

NextSelect ==
    \/ SelStart
    \/ SelWorkerStarts
    \/ SelComplete
    \/ SelMerge
    \/ SelRank

NextMerge ==
    \/ SelMerge
    \/ SelRank

SpecSelect == InitSelect /\ [][NextSelect]_vars

SpecMerge == InitMerge /\ [][NextMerge]_vars

\* the file paths the scored candidates name
CandidatePaths ==
    {sel.all_candidates_with_scores[k].file_path :
        k \in DOMAIN sel.all_candidates_with_scores}

\* C40: every item select returns is an item of the catalogue and is returned
\* once; a scored candidate without a file_path, or with one the index does
\* not know, is not among the items returned.
C40_OnlyCatalogueItemsOnce ==
    sel.pc = "done" =>
        /\ \A k \in DOMAIN sel.returned : sel.returned[k] \in IndexPaths
        /\ \A j, k \in DOMAIN sel.returned : j # k => sel.returned[j] # sel.returned[k]
        /\ {sel.returned[k] : k \in DOMAIN sel.returned} = CandidatePaths \cap IndexPaths

\* a path scored twice, a path the index does not know and a candidate
\* without a path were merged, and one item came back
C40_Witness ==
    /\ sel.pc = "done"
    /\ CandidatePaths = {"a", "z", ""}
    /\ sel.returned = <<"a">>

\* two known paths, one of them scored twice, came back once each
C40_Witness_Twice ==
    /\ sel.pc = "done"
    /\ Len(sel.all_candidates_with_scores) = 3
    /\ CandidatePaths = {"a", "b"}
    /\ Len(sel.returned) = 2


RECURSIVE MergeAll(_, _)
\* the merge loop run over cands from the dict best
MergeAll(cands, best) ==
    IF cands = <<>> THEN best
    ELSE MergeAll(Tail(cands), Upsert(best, Head(cands)))

\* what the chunks contribute when they finish in the order given
Contributions(order) ==
    Flatten([k \in 1..Len(order) |-> ChunkResult(sel.responses[order[k]])])

\* the order in which the chunks were submitted
SubmissionOrder == [k \in 1..Len(sel.responses) |-> k]

\* the file paths with a score among cands
ScoredPaths(cands) ==
    {cands[k].file_path : k \in {j \in 1..Len(cands) : cands[j].file_path # ""}}

\* the first position of path in cands
FirstSeen(cands, path) ==
    CHOOSE k \in 1..Len(cands) :
        /\ cands[k].file_path = path
        /\ \A j \in 1..(k - 1) : cands[j].file_path # path

\* the highest score cands report for path
MaxScore(cands, path) ==
    CHOOSE m \in {cands[k].score : k \in {j \in 1..Len(cands) : cands[j].file_path = path}} :
        \A k \in 1..Len(cands) : cands[k].file_path = path => cands[k].score <= m

\* C15: for a fixed set of chunk results the ranked list select returns is
\* the same for every order in which the chunk requests complete, hence the
\* one obtained when they complete in the order of submission.
C15_CompletionOrderIndependent ==
    sel.pc = "done" /\ sel.responses # <<>> =>
        sel.returned =
            Hydrate(SortedByScore(MergeAll(Contributions(SubmissionOrder), <<>>)))

\* C16: the merge returns each file_path at most once with the highest
\* score reported for it, sorted by score descending, paths of equal score
\* in the order in which the paths were first seen; [{a,9}], [{a,5},{b,7}]
\* give [{a,9},{b,7}].
C16_Merge ==
    sel.pc = "done" =>
        LET cands == sel.all_candidates_with_scores
            ranked == sel.sorted_candidates_list IN
        /\ \A i, j \in 1..Len(ranked) :
              i # j => ranked[i].file_path # ranked[j].file_path
        /\ {ranked[i].file_path : i \in 1..Len(ranked)} = ScoredPaths(cands)
        /\ \A i \in 1..Len(ranked) :
              ranked[i].score = MaxScore(cands, ranked[i].file_path)
        /\ \A i, j \in 1..Len(ranked) :
              i < j =>
                 /\ ranked[i].score >= ranked[j].score
                 /\ ranked[i].score = ranked[j].score =>
                       FirstSeen(cands, ranked[i].file_path)
                           < FirstSeen(cands, ranked[j].file_path)
        /\ cands = <<Cand("a", 9), Cand("a", 5), Cand("b", 7)>> =>
              ranked = <<Cand("a", 9), Cand("b", 7)>>

\* a merge in which a later, higher score replaced an earlier one and two
\* paths ended with the same score
C16_Witness ==
    /\ sel.pc = "done"
    /\ LET cands == sel.all_candidates_with_scores
           ranked == sel.sorted_candidates_list IN
       /\ \E k, l \in 1..Len(cands) :
             /\ k < l
             /\ cands[k].file_path = cands[l].file_path
             /\ cands[k].score < cands[l].score
       /\ \E i, j \in 1..Len(ranked) : i < j /\ ranked[i].score = ranked[j].score

\* the chunk's request failed or its answer was not a JSON array
ChunkFailed(i) == sel.responses[i].kind \in FailedKinds

C18_Witness_AllFailed ==
    /\ sel.pc = "done"
    /\ sel.responses # <<>>
    /\ \A i \in 1..Len(sel.responses) : ChunkFailed(i)

\* the processed_count of the progress events that follow the initial one
CompletionCounts ==
    LET AfterCompletion(e) ==
            e.subtype = "selection_progress" /\ e.processed_count >= 1
        progress == SelectSeq(sel.emitted, AfterCompletion) IN
    [k \in 1..Len(progress) |-> progress[k].processed_count]

\* C19: select emits one selection-progress event after every completed
\* chunk, also one that produced no candidates: the processed_count of
\* these events runs through 1..N.
C19_ProgressPerChunk ==
    sel.pc \in {"waiting", "merge", "done", "raised"} =>
        CompletionCounts = [k \in 1..sel.processed_chunks |-> k]


(***************************************************************************)
(* execute_task started on the histories a caller may hand over.           *)
(***************************************************************************)
\* self.max_turns in the runs explored from these histories
HistoryTurns == 2

\* conversation_history as the caller passes it: empty, ending with the
\* user input, ending with another user message, ending with an assistant
\* message
CallerHistories ==
    {<<>>,
     <<Entry("user", <<<<user_input>>>>, FALSE)>>,
     <<Entry("user", <<<<"earlier">>>>, FALSE)>>,
     <<Entry("user", <<<<user_input>>>>, FALSE),
       Entry("assistant", <<<<"reply">>>>, FALSE)>>}

InitHistory ==
    /\ pc = "init"
    /\ max_turns = HistoryTurns
    /\ tools = ToolRegistry
    /\ history \in CallerHistories
    /\ events = <<>>
    /\ turn_count = 0
    /\ consecutive_errors = 0
    /\ tool_name = ""
    /\ exec_result = NoneResult
    /\ user_choice = <<>>
    /\ retval = NoReturn
    /\ trace = <<>>
    /\ model_calls = 0
    /\ dispatches = 0
    /\ ct = CtIdle
    /\ sel = SelIdle
    /\ spl = SplIdle
    /\ host = HostDirect
    /\ UnitsAtRest

SpecHistory == InitHistory /\ [][Next]_vars

\* the entry is the user input of this task
IsUserInput(e) == e.role = "user" /\ e.content = <<<<user_input>>>>

\* C20: execute_task changes the caller's history only by appending, so the
\* history at any moment is a prefix of the history at every later moment;
\* the initial user message is appended only if the history is empty or
\* does not already end with that user input.
C20_AppendOnly ==
    [][/\ Len(history) <= Len(history')
       /\ SubSeq(history', 1, Len(history)) = history
       /\ pc = "started" /\ history' # history =>
             /\ history' = Append(history, Entry("user", <<<<user_input>>>>, FALSE))
             /\ history = <<>> \/ ~IsUserInput(Last(history))
      ]_vars

\* a task that was handed a history ending with another message, appended
\* the user input to it and went on appending
C20_Witness ==
    /\ Len(history) >= 4
    /\ ~IsUserInput(history[1])
    /\ IsUserInput(history[2])
    /\ pc = "done"


\* number of structured tool-result messages in a history
ToolResultCount(h) == Cardinality({k \in 1..Len(h) : h[k].multipart})

\* the dispatched tool has been dealt with and the loop goes on to its
\* next iteration
LoopContinuesAfterTool == pc \in {"dispatch", "suspended"} /\ pc' = "loop"

\* C21 as stated: after every dispatched tool the loop appends a three-part
\* tool-result entry, so once no dispatch is in progress there are as many
\* such entries as dispatches.
C21_EntryAfterEveryDispatch ==
    pc \notin {"dispatch", "suspended"} => ToolResultCount(history) = dispatches

\* C21 amended: after every dispatched tool after which the loop continues,
\* the last entry appended is a user entry of exactly three parts in this
\* order: the prefix naming the tool, the observation text just reported,
\* and the environment description.
C21_ThreePartEntry ==
    [][LoopContinuesAfterTool =>
          LET e == Last(history') IN
          /\ Len(history') > Len(history)
          /\ ToolResultCount(history') = ToolResultCount(history) + 1
          /\ e.role = "user"
          /\ e.multipart
          /\ Len(e.content) = 3
          /\ e.content[1] = <<"Result:", tool_name>>
          /\ e.content[2] = Last(events').text
          /\ Last(events').subtype = "react_observation"
          /\ e.content[3] = EnvironmentDetails
      ]_vars

\* the loop is back at its top after a tool failed and after a tool
\* succeeded, with a tool-result entry last in the history
C21_Witness ==
    /\ pc = "loop"
    /\ dispatches >= 2
    /\ ToolResultCount(history) = 2
    /\ Last(history).multipart
    /\ "tool_failed" \in {trace[k] : k \in 1..Len(trace)}


(***************************************************************************)
(* WriteFileTool.run.                                                      *)
(*                                                                         *)
(* run is called on the agent's worker thread.  It schedules _run_async on *)
(* the server's event loop and blocks in future.result(timeout=120).       *)
(* _run_async issues one container command after the other; wf.step is the *)
(* command it is at and wf.waited the seconds the worker has been blocked. *)
(***************************************************************************)
\* most base64 chunks of the content written
MaxWriteChunks == 2

\* future.result(timeout=120)
WRITE_TIMEOUT == 120

\* seconds one container command may take; the last one outlasts the timeout
CommandSeconds == {1, 50, WRITE_TIMEOUT + 1}

\* how one container command ends: (True, output), (False, message), or an
\* exception that escapes _run_async; "no_marker" is (True, output) without
\* WRITE_SUCCESS in the output of the final command
CommandOutcomes == {"ok", "failed", "raised", "no_marker"}

\* the commands _run_async issues for a path with or without a directory
\* part and content of the given number of chunks
WriteSteps(has_dir, chunks) ==
    (IF has_dir THEN <<"mkdir">> ELSE <<>>)
    \o (IF chunks = 0 THEN <<"empty">>
        ELSE <<"first">> \o [k \in 1..(chunks - 1) |-> "append"] \o <<"final">>)

InitWriteFile ==
    /\ LoopAtRest
    /\ tools = ToolRegistry
    /\ ct = CtIdle
    /\ sel = SelIdle
    /\ spl = SplIdle
    /\ host = HostDirect
    /\ \E has_dir \in BOOLEAN, chunks \in 0..MaxWriteChunks :
          wf = [WfIdle EXCEPT !.pc = "called", !.has_dir = has_dir, !.chunks = chunks]
    /\ call = CallIdle
    /\ accounts = NoAccounts
    /\ env = NoEnvironment

\* the work's ExecutionResult comes back through future.result and is
\* wrapped in result_generator
WorkReturns(w, success, text) ==
    [w EXCEPT !.pc = "returned", !.cause = IF success THEN "ok" ELSE "failed",
              !.returned = <<ExecutionResult(success, "plain", text)>>]

\* run without its except clause: the exception leaves run
OnException_propagates(w, e) ==
    [w EXCEPT !.pc = "raised", !.cause = e, !.raised = e]

\* except Exception as e: the error result wrapped in error_generator
OnException(w, e) ==
    [w EXCEPT !.pc = "returned", !.cause = e,
              !.returned = <<ExecutionResult(FALSE, "plain", e)>>]

\* coro = self._run_async(args); run_coroutine_threadsafe(coro, self.main_loop)
WfSchedule ==
    /\ wf.pc = "called"
    /\ wf' = [wf EXCEPT !.pc = "waiting"]
    /\ UNCHANGED <<loopvars, ct, sel, spl, host, call, accounts, env>>

\* the event loop runs the next command of _run_async while the worker is
\* blocked; the worker is released by the work's end or by the timeout
WfCommand ==
    /\ wf.pc = "waiting"
    /\ \E seconds \in CommandSeconds, outcome \in CommandOutcomes :
          LET steps == WriteSteps(wf.has_dir, wf.chunks)
              command == steps[wf.step]
              last == wf.step = Len(steps)
              w == [wf EXCEPT !.waited = wf.waited + seconds] IN
          /\ outcome = "no_marker" => command = "final"
          /\ wf' = IF wf.waited + seconds > WRITE_TIMEOUT
                   THEN OnException([wf EXCEPT !.waited = WRITE_TIMEOUT], "TimeoutError")
                   ELSE IF outcome = "raised" THEN OnException(w, "Exception")
                   ELSE IF outcome \in {"failed", "no_marker"}
                        THEN WorkReturns(w, FALSE, command)
                   ELSE IF last THEN WorkReturns(w, TRUE, command)
                   ELSE [w EXCEPT !.step = wf.step + 1]
    /\ UNCHANGED <<loopvars, ct, sel, spl, host, call, accounts, env>>

NextWriteFile ==
    \/ WfSchedule
    \/ WfCommand

SpecWriteFile == InitWriteFile /\ [][NextWriteFile]_vars

C22_Witness_Exception ==
    /\ wf.pc = "returned"
    /\ wf.cause = "Exception"


(***************************************************************************)
(* WriteFileTool._run_async, one container command per step.               *)
(*                                                                         *)
(* wf.issued is the commands handed to _execute_single_command_async so    *)
(* far, wf.tmp the base64 chunks in <file_path>.b64.tmp (0 is what an      *)
(* earlier write left there) and wf.dest what the destination file holds.  *)
(***************************************************************************)
\* most base64 chunks of the content written by _run_async
MaxAsyncChunks == 3

Command(name, chunk) == [name |-> name, chunk |-> chunk]

\* the command list with the appends issued from the last chunk down
RunAsyncCommands_appends_reversed(has_dir, chunks) ==
    (IF has_dir THEN <<Command("mkdir", 0)>> ELSE <<>>)
    \o (IF chunks = 0 THEN <<Command("empty", 0)>>
        ELSE <<Command("first", 1)>>
             \o [k \in 1..(chunks - 1) |-> Command("append", chunks + 1 - k)]
             \o <<Command("final", 0)>>)

\* the commands _run_async issues if none fails; chunks = 0 is empty content
RunAsyncCommands(has_dir, chunks) ==
    (IF has_dir THEN <<Command("mkdir", 0)>> ELSE <<>>)
    \o (IF chunks = 0 THEN <<Command("empty", 0)>>
        ELSE <<Command("first", 1)>>
             \o [k \in 1..(chunks - 1) |-> Command("append", k + 1)]
             \o <<Command("final", 0)>>)

\* the error_message prefix of the failure result for this command
FailureText(command) ==
    IF command.name = "mkdir" THEN <<"Failed to create directory">>
    ELSE IF command.name = "empty" THEN <<"Failed to write empty file">>
    ELSE IF command.name = "first" THEN <<"Failed on first chunk write">>
    ELSE IF command.name = "append" THEN <<"Failed on chunk append #", command.chunk>>
    ELSE <<"Failed on final decode/cleanup step">>

\* what the shell command does to the two files when it runs to its end
CommandEffect(w, command) ==
    IF command.name = "first" THEN [w EXCEPT !.tmp = <<1>>]
    ELSE IF command.name = "append" THEN [w EXCEPT !.tmp = Append(w.tmp, command.chunk)]
    ELSE IF command.name = "empty" THEN [w EXCEPT !.dest = "empty"]
    ELSE IF command.name = "final"
         THEN [w EXCEPT !.dest = IF w.tmp = [k \in 1..w.chunks |-> k]
                                 THEN "decoded" ELSE "damaged",
                        !.tmp = <<>>]
    ELSE w

\* what is left when the shell command breaks off: the redirection of the
\* final command has truncated the destination before base64 ran
CommandBroken(w, command) ==
    IF command.name = "final" THEN [w EXCEPT !.dest = "damaged"] ELSE w

InitRunAsync ==
    /\ LoopAtRest
    /\ tools = ToolRegistry
    /\ ct = CtIdle
    /\ sel = SelIdle
    /\ spl = SplIdle
    /\ host = HostDirect
    /\ \E has_dir \in BOOLEAN, chunks \in 0..MaxAsyncChunks, tmp \in {<<>>, <<0>>} :
          wf = [WfIdle EXCEPT !.pc = "run_async", !.has_dir = has_dir,
                              !.chunks = chunks, !.tmp = tmp]
    /\ call = CallIdle
    /\ accounts = NoAccounts
    /\ env = NoEnvironment

\* success, output = await self._execute_single_command_async(...) and the
\* test that follows it.  transport is the success flag; ran tells whether
\* the shell command ran in the container, done whether it ran to its end.
RunAsyncCommand ==
    /\ wf.pc = "run_async"
    /\ \E transport \in BOOLEAN, ran \in BOOLEAN, done \in BOOLEAN :
          LET command == RunAsyncCommands(wf.has_dir, wf.chunks)[wf.step]
              w == [wf EXCEPT !.issued = Append(wf.issued, command)]
              after == IF ~ran THEN w
                       ELSE IF done THEN CommandEffect(w, command)
                       ELSE CommandBroken(w, command)
              marker == transport /\ ran /\ done /\ command.name = "final" IN
          /\ done => ran
          /\ wf' = IF ~transport
                   THEN [after EXCEPT !.pc = "returned", !.cause = "failed",
                            !.returned = <<ExecutionResult(FALSE, "plain",
                                                           FailureText(command))>>]
                   ELSE IF command.name = "empty"
                   THEN [after EXCEPT !.pc = "returned", !.cause = "ok",
                            !.returned = <<ExecutionResult(TRUE, "plain", <<"empty">>)>>]
                   ELSE IF command.name = "final"
                   THEN IF marker
                        THEN [after EXCEPT !.pc = "returned", !.cause = "WRITE_SUCCESS",
                                 !.returned = <<ExecutionResult(TRUE, "plain",
                                                                <<"wrote">>)>>]
                        ELSE [after EXCEPT !.pc = "returned", !.cause = "no_marker",
                                 !.returned = <<ExecutionResult(FALSE, "plain",
                                                                FailureText(command))>>]
                   ELSE [after EXCEPT !.step = wf.step + 1]
    /\ UNCHANGED <<loopvars, ct, sel, spl, host, call, accounts, env>>

NextRunAsync ==
    \/ RunAsyncCommand

SpecRunAsync == InitRunAsync /\ [][NextRunAsync]_vars

\* the commands issued behind the mkdir, if there was one
IssuedBehindMkdir ==
    IF wf.issued # <<>> /\ wf.issued[1].name = "mkdir" THEN Tail(wf.issued) ELSE wf.issued

\* mkdir is issued first, and only for a path with a directory part
MkdirOnlyFirst ==
    /\ wf.issued # <<>> => (wf.issued[1].name = "mkdir" <=> wf.has_dir)
    /\ \A k \in DOMAIN IssuedBehindMkdir : IssuedBehindMkdir[k].name # "mkdir"

\* first chunk to the temporary file, the other chunks in chunk order, then
\* the decode
ChunkedOrder ==
    /\ Len(IssuedBehindMkdir) <= wf.chunks + 1
    /\ \A k \in DOMAIN IssuedBehindMkdir :
          IssuedBehindMkdir[k] =
              IF k = 1 THEN Command("first", 1)
              ELSE IF k <= wf.chunks THEN Command("append", k)
              ELSE Command("final", 0)

\* one command at a time, and the first that fails ends the run with a
\* failure result naming it
StopsAtFirstFailure ==
    /\ wf.pc = "run_async" => Len(wf.issued) = wf.step - 1
    /\ wf.pc = "returned" =>
          /\ Len(wf.issued) = wf.step
          /\ Len(wf.returned) = 1
          /\ ~wf.returned[1].success =>
                wf.returned[1].text = FailureText(Last(wf.issued))

\* the destination is untouched before the decode, and success needs the
\* marker in the output of the decode
DecodeWritesDestination ==
    /\ (\A k \in DOMAIN wf.issued : wf.issued[k].name # "final") => wf.dest = "old"
    /\ wf.pc = "returned" /\ wf.returned[1].success =>
          /\ Last(wf.issued) = Command("final", 0)
          /\ Len(IssuedBehindMkdir) = wf.chunks + 1
          /\ wf.cause = "WRITE_SUCCESS"

\* C39 as stated: the commands of every run are mkdir (for a path with a
\* directory part), the first-chunk write, the appends in chunk order and the
\* decode; the run stops at the first failing command with a result naming
\* it; for non-empty content only the decode writes the destination and
\* success needs WRITE_SUCCESS.
C39_ChunkedWriteAlways ==
    wf.pc \in {"run_async", "returned"} =>
        /\ MkdirOnlyFirst
        /\ ChunkedOrder
        /\ StopsAtFirstFailure
        /\ wf.chunks >= 1 => DecodeWritesDestination

\* C39: for non-empty content the commands are mkdir (for a path with a
\* directory part), the first-chunk write, the appends in chunk order and the
\* decode, only the decode writes the destination and success needs
\* WRITE_SUCCESS; for empty content they are mkdir and one command that
\* empties the destination.  Every run stops at the first failing command
\* with a result naming it.
C39_ChunkedWriteForContent ==
    wf.pc \in {"run_async", "returned"} =>
        /\ MkdirOnlyFirst
        /\ StopsAtFirstFailure
        /\ wf.chunks >= 1 => ChunkedOrder /\ DecodeWritesDestination
        /\ wf.chunks = 0 =>
              /\ IssuedBehindMkdir \in {<<>>, <<Command("empty", 0)>>}
              /\ wf.dest \in {"old", "empty"}
              /\ wf.pc = "returned" /\ wf.returned[1].success =>
                    Last(wf.issued) = Command("empty", 0)

\* three chunks were written under a new directory and decoded
C39_Witness ==
    /\ wf.pc = "returned"
    /\ wf.returned[1].success
    /\ wf.has_dir
    /\ wf.chunks = 3
    /\ Len(wf.issued) = 5
    /\ wf.dest = "decoded"

\* the append of the third chunk failed and the destination is as it was
C39_Witness_Failure ==
    /\ wf.pc = "returned"
    /\ ~wf.returned[1].success
    /\ Last(wf.issued) = Command("append", 3)
    /\ wf.dest = "old"


(***************************************************************************)
(* ToolManager.__init__ and ToolManager.get_tool_definitions.              *)
(*                                                                         *)
(* A tool is its name.  self.tools is a dict built from the list of tools  *)
(* handed to the constructor: its keys are in order of first insertion.    *)
(***************************************************************************)
\* most tools handed to the constructor
MaxRegistered == 3

\* names of the tools handed to the constructor
RegisteredNames == {"run_dolphindb_script", "plan_mode_response", "attempt_completion"}

\* the mode argument; "" is a call that leaves it out
Modes == {"PLAN", "ACT", ""}

\* the loop's variables and the components at rest while one function
\* call is explored
AllButCallAtRest ==
    /\ LoopAtRest
    /\ tools = ToolRegistry
    /\ ct = CtIdle
    /\ sel = SelIdle
    /\ spl = SplIdle
    /\ host = HostDirect
    /\ wf = WfIdle
    /\ accounts = NoAccounts
    /\ env = NoEnvironment

\* what an action on call leaves alone
allbutcall == <<loopvars, ct, sel, spl, host, wf, accounts, env>>

RECURSIVE DictKeys(_)
\* {tool.name: tool for tool in tools}: the keys, each at the position of
\* its first occurrence
DictKeys(names) ==
    IF names = <<>> THEN <<>>
    ELSE LET front == DictKeys(SubSeq(names, 1, Len(names) - 1))
             name == names[Len(names)] IN
         IF \E k \in 1..Len(front) : front[k] = name THEN front
         ELSE Append(front, name)

\* get_tool_definitions where PLAN exposes plan_mode_response only
get_tool_definitions_plan_only(registry, mode) ==
    LET IsPlanTool(name) == name = "plan_mode_response"
        IsActTool(name) == name # "plan_mode_response" IN
    IF mode = "PLAN" THEN SelectSeq(registry, IsPlanTool)
    ELSE SelectSeq(registry, IsActTool)

\* get_tool_definitions(mode), mode defaulting to "ACT"
get_tool_definitions(registry, mode) ==
    LET IsActTool(name) == name # "plan_mode_response" IN
    IF mode = "PLAN" THEN registry
    ELSE SelectSeq(registry, IsActTool)

InitDefinitions ==
    /\ AllButCallAtRest
    /\ \E names \in SeqsUpTo(RegisteredNames, MaxRegistered), mode \in Modes :
          call = [CallIdle EXCEPT
                    !.op = "get_tool_definitions",
                    !.arg = [tool_list |-> names, registry |-> DictKeys(names),
                             mode |-> mode]]

\* one call of get_tool_definitions on the registry
GetToolDefinitions ==
    /\ call.op = "get_tool_definitions"
    /\ ~call.done
    /\ call' = [call EXCEPT
                  !.done = TRUE,
                  !.out = get_tool_definitions(call.arg.registry, call.arg.mode)]
    /\ UNCHANGED allbutcall

NextDefinitions ==
    \/ GetToolDefinitions

SpecDefinitions == InitDefinitions /\ [][NextDefinitions]_vars

\* the names in a sequence
NamesOf(q) == {q[k] : k \in 1..Len(q)}

\* the first position of name in q
FirstIndex(q, name) ==
    CHOOSE k \in 1..Len(q) : q[k] = name /\ \A j \in 1..(k - 1) : q[j] # name

Open(name) == [k |-> "open", v |-> <<name>>]

Close(name) == [k |-> "close", v |-> <<name>>]

Word(w) == [k |-> "text", v |-> <<w>>]

Space == [k |-> "space", v |-> <<" ">>]

Comma == [k |-> "text", v |-> <<",">>]

\* a piece of text that is a JSON array of strings, with its elements
JsonArray(elements) == [k |-> "json_array", v |-> elements]

\* a piece of text that is a JSON value other than an array, with the text
\* Python's str() gives for the parsed value
JsonScalar(literal, as_str) == [k |-> "json_scalar", v |-> <<literal, as_str>>]

RECURSIVE strip(_)
\* str.strip()
strip(q) ==
    IF q = <<>> THEN <<>>
    ELSE IF Head(q).k = "space" THEN strip(Tail(q))
    ELSE IF q[Len(q)].k = "space" THEN strip(SubSeq(q, 1, Len(q) - 1))
    ELSE q

\* re.search(r"<name>(.*?)</name>", q, re.DOTALL): the positions of the
\* opening and of the closing tag of the leftmost match, <<0, 0>> if none
SearchBlock(q, name) ==
    LET starts == {i \in 1..Len(q) :
                      /\ q[i] = Open(name)
                      /\ \E j \in (i + 1)..Len(q) : q[j] = Close(name)} IN
    IF starts = {} THEN <<0, 0>>
    ELSE LET i == MinPos(starts) IN
         <<i, MinPos({j \in (i + 1)..Len(q) : q[j] = Close(name)})>>

\* no thought at all when the text has no thinking block
NoThought_empty == <<>>

\* the thought when the text has no thinking block
NoThought == <<Word("No thought provided.")>>

\* re.search(f"<({tool_pattern})>", q) looking the names up in the order
\* of known_tools instead of the order of the text
SearchKnownTag_by_list_order(q, known_tools) ==
    LET present == {n \in 1..Len(known_tools) :
                       \E i \in 1..Len(q) : q[i] = Open(known_tools[n])} IN
    IF present = {} THEN 0
    ELSE MinPos({i \in 1..Len(q) : q[i] = Open(known_tools[MinPos(present)])})

\* re.search(f"<({tool_pattern})>", q): the position of the leftmost
\* opening tag of a known tool, 0 if none
SearchKnownTag(q, known_tools) ==
    LET hits == {i \in 1..Len(q) :
                    \E n \in 1..Len(known_tools) : q[i] = Open(known_tools[n])} IN
    IF hits = {} THEN 0 ELSE MinPos(hits)

RECURSIVE SplitOnCommas(_, _)
\* value_str.split(','): the pieces, current being the piece under way
SplitOnCommas(q, current) ==
    IF q = <<>> THEN <<current>>
    ELSE IF Head(q) = Comma THEN <<current>> \o SplitOnCommas(Tail(q), <<>>)
    ELSE SplitOnCommas(Tail(q), Append(current, Head(q)))

\* the value stored for a parameter named options: json.loads of the
\* stripped text when it parses (a list as it is, anything else as the
\* one-element list of its str()), the trimmed non-empty pieces between
\* commas when it does not
OptionsValue(value_str) ==
    LET stripped == strip(value_str)
        NonEmpty(piece) == piece # <<>> IN
    IF Len(stripped) = 1 /\ stripped[1].k = "json_array" THEN stripped[1].v
    ELSE IF Len(stripped) = 1 /\ stripped[1].k = "json_scalar"
    THEN <<<<Word(stripped[1].v[2])>>>>
    ELSE LET pieces == SplitOnCommas(value_str, <<>>) IN
         SelectSeq([k \in 1..Len(pieces) |-> strip(pieces[k])], NonEmpty)

\* the value stored for any other parameter, without the strip
ParamValue_untrimmed(value_str) == value_str

\* the value stored for any other parameter: value_str.strip()
ParamValue(value_str) == strip(value_str)

\* params[name] = value: a dict keeps the position of a key's first insertion
SetParam(params, name, value) ==
    IF \E k \in 1..Len(params) : params[k].name = name
    THEN [k \in 1..Len(params) |->
             IF params[k].name = name THEN [name |-> name, value |-> value]
             ELSE params[k]]
    ELSE Append(params, [name |-> name, value |-> value])

RECURSIVE ParseParams(_, _)
\* the loop over re.findall(r"<([a-zA-Z0-9_]+)>(.*?)</\1>", action_content):
\* the leftmost opening tag that has a closing tag, its content up to the
\* first such closing tag, then on from behind it
ParseParams(q, params) ==
    LET starts == {i \in 1..Len(q) :
                      /\ q[i].k = "open"
                      /\ \E j \in (i + 1)..Len(q) : q[j] = Close(q[i].v[1])} IN
    IF starts = {} THEN params
    ELSE LET i == MinPos(starts)
             name == q[i].v[1]
             j == MinPos({m \in (i + 1)..Len(q) : q[m] = Close(name)})
             value_str == SubSeq(q, i + 1, j - 1)
             value == IF name = "options" THEN OptionsValue(value_str)
                      ELSE ParamValue(value_str) IN
         ParseParams(SubSeq(q, j + 1, Len(q)), SetParam(params, name, value))

\* {"thought": ..., "action": None}
NoAction(thought) ==
    [thought |-> thought, action |-> FALSE, tool_name |-> "", arguments |-> <<>>]

\* _parse_xml_response(text, known_tools)
parse_xml_response(text, known_tools) ==
    LET thought_match == SearchBlock(text, "thinking")
        found == thought_match # <<0, 0>>
        thought == IF found
                   THEN strip(SubSeq(text, thought_match[1] + 1, thought_match[2] - 1))
                   ELSE NoThought
        text_without_thought ==
            IF found THEN SubSeq(text, thought_match[2] + 1, Len(text)) ELSE text
        found_tool_match == SearchKnownTag(text_without_thought, known_tools) IN
    IF found_tool_match = 0 THEN NoAction(thought)
    ELSE LET tool == text_without_thought[found_tool_match].v[1]
             action_content_match == SearchBlock(text_without_thought, tool) IN
         IF action_content_match = <<0, 0>> THEN NoAction(thought)
         ELSE LET action_content ==
                      strip(SubSeq(text_without_thought, action_content_match[1] + 1,
                                   action_content_match[2] - 1)) IN
              [thought |-> thought, action |-> TRUE, tool_name |-> tool,
               arguments |-> ParseParams(action_content, <<>>)]

\* the number of blocks drawn behind the thinking part of a text
MaxBlocks == 2

\* what a text may hold before its thinking part
Preambles == {<<>>, <<Open("list_tables"), Close("list_tables")>>}

ThinkingBlock == <<Open("thinking"), Space, Word("plan"), Space, Close("thinking")>>

ThinkingNamingTool ==
    <<Open("thinking"), Open("run_dolphindb_script"), Word("1+1"),
      Close("run_dolphindb_script"), Close("thinking")>>

ThinkingUnclosed == <<Open("thinking"), Word("plan")>>

ThinkingParts == {<<>>, ThinkingBlock, ThinkingNamingTool, ThinkingUnclosed}

ListTablesBlock ==
    <<Open("list_tables"), Space, Open("db_path"), Space, Word("dfs://x"), Space,
      Close("db_path"), Space, Close("list_tables")>>

RunScriptBlock ==
    <<Open("run_dolphindb_script"), Open("script"), Word("select"), Space, Word("1"),
      Close("script"), Close("run_dolphindb_script")>>

RunScriptUnclosed ==
    <<Open("run_dolphindb_script"), Open("script"), Word("select"), Close("script")>>

\* the values an options parameter is drawn with in a whole text
BlockOptionValues ==
    {<<JsonArray(<<<<Word("A")>>, <<Word("B")>>>>)>>,
     <<Word("A"), Comma, Space, Word("B"), Space, Comma>>}

PlanBlock(options) ==
    <<Open("plan_mode_response"), Open("response"), Word("which"), Close("response"),
      Space, Open("options")>> \o options \o
    <<Close("options"), Close("plan_mode_response")>>

Blocks ==
    {<<Word("hello")>>, ListTablesBlock, RunScriptBlock, RunScriptUnclosed}
    \cup {PlanBlock(o) : o \in BlockOptionValues}

\* the orders and the choices of known_tools
KnownToolLists ==
    {<<"list_tables", "run_dolphindb_script", "plan_mode_response">>,
     <<"plan_mode_response", "run_dolphindb_script", "list_tables">>,
     <<"run_dolphindb_script", "list_tables">>}

RECURSIVE Flat(_)
\* the parts of a text one behind the other
Flat(parts) == IF parts = <<>> THEN <<>> ELSE Head(parts) \o Flat(Tail(parts))

InitParse ==
    /\ AllButCallAtRest
    /\ \E pre \in Preambles, thinking \in ThinkingParts,
          blocks \in SeqsUpTo(Blocks, MaxBlocks), known_tools \in KnownToolLists :
          call = [CallIdle EXCEPT
                    !.op = "_parse_xml_response",
                    !.arg = [pre |-> pre, thinking |-> thinking, blocks |-> blocks,
                             text |-> pre \o thinking \o Flat(blocks),
                             known_tools |-> known_tools]]

\* one call of _parse_xml_response
ParseXmlResponse ==
    /\ call.op = "_parse_xml_response"
    /\ ~call.done
    /\ call' = [call EXCEPT
                  !.done = TRUE,
                  !.out = parse_xml_response(call.arg.text, call.arg.known_tools)]
    /\ UNCHANGED allbutcall

NextParse ==
    \/ ParseXmlResponse

SpecParse == InitParse /\ [][NextParse]_vars

\* a parsed text whose thinking part is a closed thinking block
HasThinkingBlock(arg) == arg.thinking \in {ThinkingBlock, ThinkingNamingTool}

\* the text behind the first thinking block, the whole text when it has none
AfterThinking(arg) == IF HasThinkingBlock(arg) THEN Flat(arg.blocks) ELSE arg.text

\* the positions of the opening tags of known tools in q
KnownOpens(q, known_tools) ==
    {i \in 1..Len(q) : \E n \in 1..Len(known_tools) : q[i] = Open(known_tools[n])}

\* q back to front
Reverse(q) == [k \in 1..Len(q) |-> q[Len(q) + 1 - k]]

\* a finished call of the parser
Parsed == call.op = "_parse_xml_response" /\ call.done

\* C24: when the text after the thinking block opens two or more different
\* known tools, a selected tool is the one whose opening tag comes first in
\* the text, whatever the order of known_tools and the length of the names;
\* a tool tag inside or before the first thinking block is never selected.
C24_FirstTagWins ==
    Parsed =>
        LET rest == AfterThinking(call.arg)
            opens == KnownOpens(rest, call.arg.known_tools)
            out == call.out IN
        /\ Cardinality({rest[i].v : i \in opens}) >= 2 =>
              LET first == rest[MinPos(opens)].v[1] IN
              /\ out.action => out.tool_name = first
              /\ (\E j \in (MinPos(opens) + 1)..Len(rest) : rest[j] = Close(first))
                    => out.action
              /\ out = parse_xml_response(call.arg.text, Reverse(call.arg.known_tools))
        /\ HasThinkingBlock(call.arg) /\ out.action =>
              \E i \in opens : rest[i] = Open(out.tool_name)
        /\ HasThinkingBlock(call.arg) /\ opens = {} => ~out.action

\* the longer name, second in known_tools, opens first in the text and is
\* selected, with a tool tag before the thinking block and one inside it
C24_Witness ==
    /\ Parsed
    /\ call.arg.pre # <<>>
    /\ call.arg.thinking = ThinkingNamingTool
    /\ call.arg.blocks = <<RunScriptBlock, ListTablesBlock>>
    /\ call.arg.known_tools[1] = "list_tables"
    /\ call.out.action
    /\ call.out.tool_name = "run_dolphindb_script"

\* the well-formed tool blocks among Blocks
WellFormedBlocks ==
    {ListTablesBlock, RunScriptBlock} \cup {PlanBlock(o) : o \in BlockOptionValues}

\* the parameters a well-formed block declares, each with the text between
\* its tags
DeclaredParams(block) ==
    IF block = ListTablesBlock
    THEN <<[name |-> "db_path", text |-> <<Space, Word("dfs://x"), Space>>]>>
    ELSE IF block = RunScriptBlock
    THEN <<[name |-> "script", text |-> <<Word("select"), Space, Word("1")>>]>>
    ELSE <<[name |-> "response", text |-> <<Word("which")>>],
           [name |-> "options", text |-> SubSeq(block, 7, Len(block) - 2)]>>

\* the text without the whitespace at its two ends
Trimmed(q) ==
    LET solid == {i \in 1..Len(q) : q[i].k # "space"} IN
    IF solid = {} THEN <<>>
    ELSE SubSeq(q, MinPos(solid), CHOOSE i \in solid : \A j \in solid : j <= i)

\* a finished call on a thinking block followed by exactly one well-formed
\* block of a known tool
ParsedOneBlock ==
    /\ Parsed
    /\ call.arg.pre = <<>>
    /\ call.arg.thinking = ThinkingBlock
    /\ Len(call.arg.blocks) = 1
    /\ call.arg.blocks[1] \in WellFormedBlocks
    /\ \E n \in 1..Len(call.arg.known_tools) :
          call.arg.blocks[1][1] = Open(call.arg.known_tools[n])

\* C25 as stated: a thinking block followed by exactly one well-formed
\* block of a known tool gives that tool's name, exactly the declared
\* parameters, every value the text between its tags without the
\* surrounding whitespace, and the trimmed thinking text as the thought.
C25_EveryValueVerbatim ==
    ParsedOneBlock =>
        LET declared == DeclaredParams(call.arg.blocks[1]) IN
        /\ call.out.action
        /\ call.out.tool_name = call.arg.blocks[1][1].v[1]
        /\ call.out.thought = <<Word("plan")>>
        /\ call.out.arguments =
              [k \in 1..Len(declared) |->
                  [name |-> declared[k].name, value |-> Trimmed(declared[k].text)]]

\* C25 amended: the same, with the value of every parameter other than
\* options the trimmed text between its tags; options is among the
\* arguments, its value a list.
C25_ValuesVerbatimButOptions ==
    ParsedOneBlock =>
        LET declared == DeclaredParams(call.arg.blocks[1])
            arguments == call.out.arguments IN
        /\ call.out.action
        /\ call.out.tool_name = call.arg.blocks[1][1].v[1]
        /\ call.out.thought = <<Word("plan")>>
        /\ Len(arguments) = Len(declared)
        /\ \A k \in 1..Len(declared) :
              /\ arguments[k].name = declared[k].name
              /\ declared[k].name # "options" =>
                    arguments[k].value = Trimmed(declared[k].text)

\* list_tables parsed with the blanks around its db_path value removed
C25_Witness ==
    /\ ParsedOneBlock
    /\ call.arg.blocks[1] = ListTablesBlock
    /\ call.out.arguments = <<[name |-> "db_path", value |-> <<Word("dfs://x")>>]>>

MaxValueLen == 6

\* the tokens of an options value that is not JSON
ValueTokens == {Word("A"), Word("B"), Comma, Space}

\* options values that json.loads parses
JsonValues ==
    {<<JsonArray(<<<<Word("A")>>, <<Word("B")>>>>)>>,
     <<Space, JsonArray(<<<<Word("B")>>, <<Word("A")>>>>), Space>>,
     <<JsonArray(<<>>)>>,
     <<JsonScalar("true", "True")>>}

InitOptions ==
    /\ AllButCallAtRest
    /\ \E value \in SeqsUpTo(ValueTokens, MaxValueLen) \cup JsonValues :
          call = [CallIdle EXCEPT
                    !.op = "options",
                    !.arg = [value |-> value,
                             text |-> ThinkingBlock \o PlanBlock(value),
                             known_tools |-> <<"plan_mode_response">>]]

\* one call of _parse_xml_response on the text with the options value
ParseOptions ==
    /\ call.op = "options"
    /\ ~call.done
    /\ call' = [call EXCEPT
                  !.done = TRUE,
                  !.out = parse_xml_response(call.arg.text, call.arg.known_tools)]
    /\ UNCHANGED allbutcall

NextOptions ==
    \/ ParseOptions

SpecOptions == InitOptions /\ [][NextOptions]_vars

\* the positions of the commas of q, with the two ends of q
Cuts(q) == {0, Len(q) + 1} \cup {i \in 1..Len(q) : q[i] = Comma}

\* a token as plain text
AsText(token) == IF token.k = "json_scalar" THEN Word(token.v[1]) ELSE token

\* the non-empty trimmed pieces between the commas of q, in order
TrimmedPieces(q) ==
    LET text == [i \in 1..Len(q) |-> AsText(q[i])]
        starts == {c \in Cuts(q) \ {Len(q) + 1} :
                      Trimmed(SubSeq(text, c + 1,
                                     MinPos({d \in Cuts(q) : d > c}) - 1)) # <<>>}
        Piece(c) == Trimmed(SubSeq(text, c + 1, MinPos({d \in Cuts(q) : d > c}) - 1))
        RECURSIVE InOrder(_)
        InOrder(S) == IF S = {} THEN <<>>
                      ELSE <<Piece(MinPos(S))>> \o InOrder(S \ {MinPos(S)}) IN
    InOrder(starts)

\* the sequence the options value stands for: the elements of a JSON array,
\* otherwise the trimmed non-empty pieces between commas
NormalisedOptions(value) ==
    LET t == Trimmed(value) IN
    IF Len(t) = 1 /\ t[1].k = "json_array" THEN t[1].v ELSE TrimmedPieces(value)

\* the arguments named options
OptionsFields(arguments) == {k \in 1..Len(arguments) : arguments[k].name = "options"}

\* C27: options is the elements of a JSON array in order, otherwise the
\* trimmed non-empty pieces between commas; when nothing remains the
\* arguments hold no options field.
C27_OptionsNormalised ==
    call.op = "options" /\ call.done =>
        LET expected == NormalisedOptions(call.arg.value)
            fields == OptionsFields(call.out.arguments) IN
        IF expected = <<>> THEN fields = {}
        ELSE \E k \in fields : call.out.arguments[k].value = expected


(***************************************************************************)
(* DDBRAG.retrieve and _get_files_content.                                 *)
(*                                                                         *)
(* The selection phase is taken by its result: a list of distinct          *)
(* catalogue items in rank order.  Files of the project may be unreadable. *)
(***************************************************************************)
MaxTopK == 2

\* the file paths of the catalogue, in catalogue order
CataloguePaths == <<"a.md", "b.md", "c.md">>

Catalogues == {<<>>, CataloguePaths}

Strategies == {"llm", "keyword", "vector"}

\* the token count the index holds for a file
IndexTokens(file_path) ==
    IF file_path = "a.md" THEN 10 ELSE IF file_path = "b.md" THEN 20 ELSE 30

\* what f.read() gives for a file
FileContent(file_path) == <<"content of", file_path>>

\* Document(file_path, content, tokens)
Document(file_path) ==
    [file_path |-> file_path, content |-> FileContent(file_path),
     tokens |-> IndexTokens(file_path)]

\* the rankings a selection may return over the catalogue
Rankings(catalogue) ==
    {q \in SeqsUpTo({catalogue[k] : k \in 1..Len(catalogue)}, Len(catalogue)) :
        \A i, j \in 1..Len(q) : i # j => q[i] # q[j]}

\* candidates[:top_k] for top_k >= 0
Truncate(candidates, top_k) ==
    SubSeq(candidates, 1, IF top_k < Len(candidates) THEN top_k ELSE Len(candidates))

\* the documents read in the order of the catalogue
get_files_content_catalogue_order(file_paths, unreadable) ==
    LET Wanted(path) ==
            /\ path \notin unreadable
            /\ \E k \in 1..Len(file_paths) : file_paths[k] = path
        kept == SelectSeq(CataloguePaths, Wanted) IN
    [k \in 1..Len(kept) |-> Document(kept[k])]

\* _get_files_content(file_paths): one Document per file that can be read,
\* in the order of file_paths
get_files_content(file_paths, unreadable) ==
    LET Readable(path) == path \notin unreadable
        kept == SelectSeq(file_paths, Readable) IN
    [k \in 1..Len(kept) |-> Document(kept[k])]

RagStatus(subtype, count) == [type |-> "rag_status", subtype |-> subtype, count |-> count]

InitRetrieve ==
    /\ AllButCallAtRest
    /\ \E catalogue \in Catalogues, top_k \in 0..MaxTopK,
          unreadable \in SUBSET {"a.md", "c.md"}, strategy \in Strategies :
          call = [CallIdle EXCEPT
                    !.op = "retrieve",
                    !.arg = [all_indices |-> catalogue, top_k |-> top_k,
                             unreadable |-> unreadable,
                             selection_strategy |-> strategy],
                    !.out = [pc |-> "start", events |-> <<>>, candidates |-> <<>>,
                             returned |-> <<>>, raised |-> ""]]

\* retrieve up to the selection: RagStart, the catalogue loaded, the early
\* return on an empty catalogue
RetrieveLoad ==
    /\ call.op = "retrieve"
    /\ call.out.pc = "start"
    /\ IF call.arg.all_indices = <<>>
       THEN call' = [call EXCEPT
                       !.done = TRUE,
                       !.out.pc = "returned",
                       !.out.events = <<RagStatus("start", 0)>>]
       ELSE call' = [call EXCEPT
                       !.out.pc = "select",
                       !.out.events =
                           <<RagStatus("start", 0),
                             RagStatus("index_loaded", Len(call.arg.all_indices)),
                             RagStatus("selection_start", 0)>>]
    /\ UNCHANGED allbutcall

\* an unknown selection strategy
RetrieveUnknownStrategy ==
    /\ call.op = "retrieve"
    /\ call.out.pc = "select"
    /\ call.arg.selection_strategy \notin {"llm", "keyword"}
    /\ call' = [call EXCEPT
                  !.done = TRUE, !.out.pc = "raised", !.out.raised = "ValueError"]
    /\ UNCHANGED allbutcall

\* the selection returns its ranking: nothing found, or on to the cut
RetrieveSelected ==
    /\ call.op = "retrieve"
    /\ call.out.pc = "select"
    /\ call.arg.selection_strategy \in {"llm", "keyword"}
    /\ \E candidates \in Rankings(call.arg.all_indices) :
          IF candidates = <<>>
          THEN call' = [call EXCEPT !.done = TRUE, !.out.pc = "returned"]
          ELSE call' = [call EXCEPT
                          !.out.pc = "truncate",
                          !.out.candidates = candidates,
                          !.out.events =
                              Append(@, RagStatus("rerank_start", Len(candidates)))]
    /\ UNCHANGED allbutcall

\* the cut to top_k, RagEnd and the reading of the files
RetrieveHydrate ==
    /\ call.op = "retrieve"
    /\ call.out.pc = "truncate"
    /\ LET final_identifiers == Truncate(call.out.candidates, call.arg.top_k) IN
       call' = [call EXCEPT
                  !.done = TRUE,
                  !.out.pc = "returned",
                  !.out.events = Append(@, RagStatus("end", Len(final_identifiers))),
                  !.out.returned =
                      get_files_content(final_identifiers, call.arg.unreadable)]
    /\ UNCHANGED allbutcall

NextRetrieve ==
    \/ RetrieveLoad
    \/ RetrieveUnknownStrategy
    \/ RetrieveSelected
    \/ RetrieveHydrate

SpecRetrieve == InitRetrieve /\ [][NextRetrieve]_vars

\* the place of a file among the candidates, 0 if it is none of them
RankOf(candidates, file_path) ==
    IF \E k \in 1..Len(candidates) : candidates[k] = file_path
    THEN CHOOSE k \in 1..Len(candidates) : candidates[k] = file_path
    ELSE 0

\* C28: retrieve returns at most top_k Documents; each is the content of
\* one of the top_k highest-ranked candidates, none twice, in rank order,
\* and every one of those candidates whose file can be read is returned.
C28_TopKInRankOrder ==
    call.op = "retrieve" /\ call.out.pc = "returned" =>
        LET docs == call.out.returned
            candidates == call.out.candidates
            top_k == call.arg.top_k IN
        /\ Len(docs) <= top_k
        /\ \A k \in 1..Len(docs) :
              /\ RankOf(candidates, docs[k].file_path) \in 1..top_k
              /\ docs[k].content = FileContent(docs[k].file_path)
        /\ \A i, j \in 1..Len(docs) :
              i < j => RankOf(candidates, docs[i].file_path)
                          < RankOf(candidates, docs[j].file_path)
        /\ \A r \in 1..Len(candidates) :
              r <= top_k /\ candidates[r] \notin call.arg.unreadable =>
                  \E k \in 1..Len(docs) : docs[k].file_path = candidates[r]

\* three candidates ranked against the catalogue order, cut to two
C28_Witness ==
    /\ call.op = "retrieve"
    /\ call.out.pc = "returned"
    /\ call.arg.top_k = 2
    /\ call.arg.unreadable = {}
    /\ call.out.candidates = <<"c.md", "a.md", "b.md">>
    /\ call.out.returned = <<Document("c.md"), Document("a.md")>>


(***************************************************************************)
(* The auth endpoints: register, verify-email, token and                   *)
(* resend-verification-email over the users and verification codes.        *)
(*                                                                         *)
(* accounts.users is the users table in the order of the ids,              *)
(* accounts.codes the verification_codes table, accounts.now the clock in  *)
(* minutes, accounts.tokens the subjects access tokens were issued for and *)
(* accounts.last the last request with the status of its response.         *)
(***************************************************************************)
\* the clock stops here
MaxClock == 11

\* the verification codes created in one run
MaxCodes == 3

EMAIL_VERIFICATION_CODE_EXPIRE_MINUTES == 10

\* resend-verification-email: one new code per minute
RESEND_WAIT_MINUTES == 1

Emails == {"a@x.io", "b@x.io"}

Passwords == {"secret", "guess"}

\* what random.choices(string.digits, k=6) may give
CodeTexts == {"111111", "222222"}

\* get_password_hash(password)
get_password_hash(password) == <<"hash", password>>

\* verify_password(plain_password, hashed_password)
verify_password(plain_password, hashed_password) ==
    hashed_password = get_password_hash(plain_password)

\* crud.get_user_by_email: the ids of the users with the email
UsersByEmail(email) ==
    {id \in 1..Len(accounts.users) : accounts.users[id].email = email}

\* crud.get_verification_code: the rows joined to a user of that email,
\* with that code, not expired
MatchingCodes(email, code) ==
    {row \in accounts.codes :
        /\ row.user_id \in UsersByEmail(email)
        /\ row.code = code
        /\ row.expires_at > accounts.now}

\* the request and the status of its response
Response(endpoint, email, secret, status) ==
    [endpoint |-> endpoint, email |-> email, secret |-> secret, status |-> status]

\* crud.create_verification_code
NewCode(user_id, code) ==
    [id |-> accounts.code_ids + 1, user_id |-> user_id, code |-> code,
     created_at |-> accounts.now,
     expires_at |-> accounts.now + EMAIL_VERIFICATION_CODE_EXPIRE_MINUTES]

InitAccounts ==
    /\ LoopAtRest
    /\ tools = ToolRegistry
    /\ ct = CtIdle
    /\ sel = SelIdle
    /\ spl = SplIdle
    /\ host = HostDirect
    /\ wf = WfIdle
    /\ call = CallIdle
    /\ accounts = NoAccounts
    /\ env = NoEnvironment

\* POST /register
RegisterUser(email, password) ==
    IF UsersByEmail(email) # {}
    THEN accounts' = [accounts EXCEPT !.last = Response("register", email, password, 409)]
    ELSE /\ accounts.code_ids < MaxCodes
         /\ \E verification_code \in CodeTexts :
               accounts' =
                   [accounts EXCEPT
                      !.users = Append(@, [email |-> email,
                                           hashed_password |-> get_password_hash(password),
                                           is_active |-> FALSE]),
                      !.codes = @ \cup {NewCode(Len(accounts.users) + 1, verification_code)},
                      !.code_ids = @ + 1,
                      !.last = Response("register", email, password, 201)]

\* POST /verify-email that activates a user whatever the code
VerifyEmail_any_code(email, code) ==
    IF UsersByEmail(email) = {}
    THEN accounts' = [accounts EXCEPT !.last = Response("verify-email", email, code, 400)]
    ELSE LET id == MinPos(UsersByEmail(email)) IN
         accounts' = [accounts EXCEPT
                        !.users[id].is_active = TRUE,
                        !.last = Response("verify-email", email, code, 200)]

\* POST /verify-email
VerifyEmail(email, code) ==
    IF MatchingCodes(email, code) = {}
    THEN accounts' = [accounts EXCEPT !.last = Response("verify-email", email, code, 400)]
    ELSE \E db_code \in MatchingCodes(email, code) :
            LET id == MinPos(UsersByEmail(email)) IN
            IF id # db_code.user_id
            THEN accounts' =
                     [accounts EXCEPT !.last = Response("verify-email", email, code, 404)]
            ELSE IF accounts.users[id].is_active
            THEN accounts' =
                     [accounts EXCEPT !.last = Response("verify-email", email, code, 200)]
            ELSE accounts' =
                     [accounts EXCEPT
                        !.users[id].is_active = TRUE,
                        !.codes = {row \in @ : row.id # db_code.id},
                        !.last = Response("verify-email", email, code, 200)]

\* POST /token
LoginForAccessToken(email, password) ==
    IF \/ UsersByEmail(email) = {}
       \/ ~verify_password(password,
                           accounts.users[MinPos(UsersByEmail(email))].hashed_password)
    THEN accounts' = [accounts EXCEPT !.last = Response("token", email, password, 400)]
    ELSE IF ~accounts.users[MinPos(UsersByEmail(email))].is_active
    THEN accounts' = [accounts EXCEPT !.last = Response("token", email, password, 403)]
    ELSE accounts' = [accounts EXCEPT
                        !.tokens = @ \cup {email},
                        !.last = Response("token", email, password, 200)]

\* POST /resend-verification-email
ResendVerificationEmail(email) ==
    IF UsersByEmail(email) = {}
    THEN accounts' = [accounts EXCEPT !.last = Response("resend", email, "", 200)]
    ELSE LET id == MinPos(UsersByEmail(email))
             own == {row \in accounts.codes : row.user_id = id} IN
         IF accounts.users[id].is_active
         THEN accounts' = [accounts EXCEPT !.last = Response("resend", email, "", 400)]
         ELSE IF \E row \in own :
                    /\ \A other \in own : other.created_at <= row.created_at
                    /\ accounts.now - row.created_at < RESEND_WAIT_MINUTES
         THEN accounts' = [accounts EXCEPT !.last = Response("resend", email, "", 429)]
         ELSE /\ accounts.code_ids < MaxCodes
              /\ \E new_code \in CodeTexts :
                    accounts' =
                        [accounts EXCEPT
                           !.codes = (@ \ own) \cup {NewCode(id, new_code)},
                           !.code_ids = @ + 1,
                           !.last = Response("resend", email, "", 200)]

\* datetime.utcnow() moves on, by a minute or by the life of a code
ClockAdvances ==
    \E minutes \in {1, EMAIL_VERIFICATION_CODE_EXPIRE_MINUTES} :
        /\ accounts.now + minutes <= MaxClock
        /\ accounts' = [accounts EXCEPT !.now = @ + minutes]

Register ==
    /\ \E email \in Emails : RegisterUser(email, "secret")
    /\ UNCHANGED <<loopvars, ct, sel, spl, host, wf, call, env>>

Verify ==
    /\ \E email \in Emails, code \in CodeTexts : VerifyEmail(email, code)
    /\ UNCHANGED <<loopvars, ct, sel, spl, host, wf, call, env>>

Login ==
    /\ \E email \in Emails, password \in Passwords : LoginForAccessToken(email, password)
    /\ UNCHANGED <<loopvars, ct, sel, spl, host, wf, call, env>>

Resend ==
    /\ \E email \in Emails : ResendVerificationEmail(email)
    /\ UNCHANGED <<loopvars, ct, sel, spl, host, wf, call, env>>

Clock ==
    /\ ClockAdvances
    /\ UNCHANGED <<loopvars, ct, sel, spl, host, wf, call, env>>

NextAccounts ==
    \/ Register
    \/ Verify
    \/ Login
    \/ Resend
    \/ Clock

SpecAccounts == InitAccounts /\ [][NextAccounts]_vars

NoActionReply == trace' = Append(trace, "no_action")

\* C30: a reply without a parsed action dispatches no tool, appends the
\* reply as an assistant entry and the retry observation after it, adds one
\* to consecutive_errors and returns to the top of the loop unless the
\* error budget is reached; a tool is dispatched only on a model reply with
\* a parsed action, and a model reply is awaited only once per turn.
C30_NoActionTurn ==
    [][
        /\ NoActionReply =>
              /\ dispatches' = dispatches
              /\ Len(history') = Len(history) + 2
              /\ SubSeq(history', 1, Len(history)) = history
              /\ history'[Len(history) + 1].role = "assistant"
              /\ history'[Len(history) + 2] =
                    Entry("tool_result", <<NoActionObservation>>, FALSE)
              /\ consecutive_errors' = consecutive_errors + 1
              /\ pc' = IF consecutive_errors' >= max_consecutive_errors
                       THEN "done" ELSE "loop"
        /\ dispatches' # dispatches =>
              /\ dispatches' = dispatches + 1
              /\ pc = "await_model"
              /\ pc' = "dispatch"
              /\ model_calls = turn_count
              /\ Last(events') = ReactAction(tool_name')
              /\ Last(history').role = "assistant"
        /\ pc' = "await_model" /\ pc # "await_model" =>
              /\ turn_count' = turn_count + 1
              /\ model_calls' = model_calls + 1
              /\ dispatches' = dispatches
    ]_vars

\* the second turn in a row without an action, after a turn with a
\* dispatched tool: back at the top of the loop, one dispatch in three turns
C30_Witness ==
    /\ pc = "loop"
    /\ turn_count = 3
    /\ dispatches = 1
    /\ consecutive_errors = 2
    /\ Last(trace) = "no_action"
    /\ Last(history) = Entry("tool_result", <<NoActionObservation>>, FALSE)


(***************************************************************************)
(* The order of the events of a turn.                                      *)
(***************************************************************************)
\* the events that mark the phases of a turn
PhaseMarks == {"start", "react_thought", "react_action", "react_observation", "end"}

\* the subtype of the last phase mark before position i, "" if none
MarkBefore(i) ==
    LET marks == {j \in 1..(i - 1) : events[j].subtype \in PhaseMarks} IN
    IF marks = {} THEN ""
    ELSE events[CHOOSE j \in marks : \A m \in marks : m <= j].subtype

\* the model replies received so far
RepliesReceived == Cardinality({i \in DOMAIN trace : trace[i] = "no_action"}) + dispatches

\* C31: TaskStart is the first event; every model reply gives exactly one
\* thought event, before the action and observation of its turn; the action
\* event is out before the tool runs, and every progress event of the tool
\* lies behind the action event and before the observation or the end.
C31_EventOrder ==
    /\ events # <<>> => events[1] = TaskStart
    /\ \A i \in DOMAIN events : i > 1 => events[i].subtype # "start"
    /\ CountOf(events, "react_thought") = RepliesReceived
    /\ \A i, j \in DOMAIN events :
          /\ events[i].subtype = "react_thought"
          /\ events[j].subtype = "react_thought"
          /\ i # j
          => events[i].n # events[j].n
    /\ \A i \in DOMAIN events :
          /\ events[i].subtype = "react_action" => MarkBefore(i) = "react_thought"
          /\ events[i].subtype = "react_observation" =>
                MarkBefore(i) \in {"react_thought", "react_action"}
          /\ events[i].subtype = "tool_progress" => MarkBefore(i) = "react_action"
    /\ pc = "dispatch" =>
          /\ MarkBefore(Len(events) + 1) = "react_action"
          /\ \E i \in DOMAIN events :
                /\ events[i] = ReactAction(tool_name)
                /\ \A j \in (i + 1)..Len(events) : events[j].subtype = "tool_progress"

\* a turn with thought, action, progress and observation behind a turn
\* without an action
C31_Witness ==
    /\ pc = "loop"
    /\ turn_count = 2
    /\ trace = <<"no_action", "ok">>
    /\ CountOf(events, "react_thought") = 2
    /\ CountOf(events, "tool_progress") = MaxProgress
    /\ Last(events).subtype = "react_observation"


(***************************************************************************)
(* The worker pool of select: more chunks than workers.                    *)
(***************************************************************************)
\* the widest pool explored
MaxWorkers == 2

\* the most chunks submitted to it
MaxPoolChunks == 3

\* the answers of the chunks submitted to the pool
PoolResponses ==
    {ArrayResponse(<<Cand("a", 9)>>), [kind |-> "request_failed", items |-> <<>>]}

InitPool ==
    /\ LoopAtRest
    /\ tools = ToolRegistry
    /\ ct = CtIdle
    /\ spl = SplIdle
    /\ host = HostDirect
    /\ UnitsAtRest
    /\ \E responses \in SeqsUpTo(PoolResponses, MaxPoolChunks),
          max_workers \in 1..MaxWorkers :
          sel = [SelIdle EXCEPT !.pc = "called", !.responses = responses,
                                !.max_workers = max_workers]

SpecPool == InitPool /\ [][NextSelect]_vars

\* C32: one request is submitted per chunk; never more than max_workers
\* requests are executing; merging and ranking start only when every
\* submitted request has completed or failed.
C32_BoundedPool ==
    /\ sel.pc # "called" /\ sel.responses # <<>> =>
          /\ Len(sel.submitted) = Len(sel.responses)
          /\ \A i \in 1..Len(sel.responses) :
                Cardinality({k \in 1..Len(sel.submitted) : sel.submitted[k] = i}) = 1
    /\ Cardinality(sel.running) <= sel.max_workers
    /\ sel.running \subseteq sel.pending
    /\ sel.pending # {} =>
          /\ sel.pc = "waiting"
          /\ sel.merged = 0
          /\ sel.best_candidates = <<>>
          /\ sel.returned = <<>>
    /\ sel.pc \notin {"called", "waiting"} /\ sel.responses # <<>> =>
          /\ sel.pending = {}
          /\ Len(sel.order) = Len(sel.responses)

\* every worker is busy and a submitted request waits for one
C32_Witness ==
    /\ sel.pc = "waiting"
    /\ Cardinality(sel.running) = sel.max_workers
    /\ sel.pending \ sel.running # {}

\* the merge has begun, three requests having finished on two workers
C32_Witness_Merging ==
    /\ sel.pc = "merge"
    /\ sel.max_workers = 2
    /\ Len(sel.order) = 3


(***************************************************************************)
(* normalize_history_for_llm.                                              *)
(*                                                                         *)
(* A string is a sequence of pieces of text; the content of an entry is    *)
(* the sequence of its parts' texts, one part for a content that is a      *)
(* string, none for a content that is None.                                *)
(***************************************************************************)
\* the longest history normalised
MaxNormalised == 2

\* the entries of the histories normalised
NormaliseEntries ==
    {Entry("user", <<<<user_input>>>>, FALSE),
     Entry("assistant", <<<<"reply", "none">>>>, FALSE),
     Entry("tool_result", <<NoActionObservation>>, FALSE),
     Entry("assistant", <<>>, FALSE),
     Entry("user", <<>>, TRUE),
     Entry("user", <<<<"only part">>>>, TRUE),
     Entry("user", <<<<"Result:", "list_tables">>, <<>>, EnvironmentDetails>>, TRUE),
     ToolResultMessage("run_dolphindb_script", <<"1", "row">>)}

RECURSIVE JoinLines_reversed(_)
\* the parts joined last part first
JoinLines_reversed(parts) ==
    IF parts = <<>> THEN <<>>
    ELSE IF Len(parts) = 1 THEN parts[1]
    ELSE JoinLines_reversed(Tail(parts)) \o <<"\n">> \o Head(parts)

RECURSIVE JoinLines(_)
\* "\n".join(parts)
JoinLines(parts) ==
    IF parts = <<>> THEN <<>>
    ELSE IF Len(parts) = 1 THEN parts[1]
    ELSE Head(parts) \o <<"\n">> \o JoinLines(Tail(parts))

\* the entry appended to normalized for msg
NormalisedEntry(msg) ==
    IF msg.multipart THEN Entry(msg.role, <<JoinLines(msg.content)>>, FALSE)
    ELSE IF msg.content # <<>> THEN Entry(msg.role, <<msg.content[1]>>, FALSE)
    ELSE Entry(msg.role, <<<<>>>>, FALSE)

\* normalize_history_for_llm(history)
normalize_history_for_llm(h) == [k \in 1..Len(h) |-> NormalisedEntry(h[k])]

InitNormalise ==
    /\ AllButCallAtRest
    /\ \E h \in SeqsUpTo(NormaliseEntries, MaxNormalised) :
          call = [CallIdle EXCEPT !.op = "normalize_history_for_llm",
                                  !.arg = [history |-> h]]

\* one call of normalize_history_for_llm
NormaliseHistory ==
    /\ call.op = "normalize_history_for_llm"
    /\ ~call.done
    /\ call' = [call EXCEPT !.done = TRUE,
                            !.out = normalize_history_for_llm(call.arg.history)]
    /\ UNCHANGED allbutcall

NextNormalise ==
    \/ NormaliseHistory

SpecNormalise == InitNormalise /\ [][NextNormalise]_vars

\* where the text of part j begins in the joined string, less one
PartOffset(parts, j) == Sum([i \in 1..(j - 1) |-> Len(parts[i]) + 1])

\* C33: the result has one entry for each entry of the input, in the same
\* order and with the same role; each content is one string; the string of
\* a multi-part content holds the texts of the parts in their order, one
\* line break between two parts; the input history is left as it was.
C33_Normalised ==
    [][call.op = "normalize_history_for_llm" /\ call'.done =>
          LET h == call.arg.history
              out == call'.out IN
          /\ call'.arg.history = h
          /\ Len(out) = Len(h)
          /\ \A k \in 1..Len(h) :
                /\ out[k].role = h[k].role
                /\ ~out[k].multipart
                /\ Len(out[k].content) = 1
                /\ ~h[k].multipart /\ h[k].content # <<>> =>
                      out[k].content[1] = h[k].content[1]
                /\ h[k].content = <<>> => out[k].content[1] = <<>>
                /\ h[k].multipart /\ h[k].content # <<>> =>
                      LET parts == h[k].content
                          text == out[k].content[1] IN
                      /\ Len(text) = PartOffset(parts, Len(parts) + 1) - 1
                      /\ \A j \in 1..Len(parts) :
                            /\ \A m \in 1..Len(parts[j]) :
                                  text[PartOffset(parts, j) + m] = parts[j][m]
                            /\ j > 1 => text[PartOffset(parts, j)] = "\n"
    ]_vars

\* a string entry and a three-part tool result normalised
C33_Witness ==
    /\ call.op = "normalize_history_for_llm"
    /\ call.done
    /\ Len(call.arg.history) = 2
    /\ ~call.arg.history[1].multipart
    /\ call.arg.history[2] = ToolResultMessage("run_dolphindb_script", <<"1", "row">>)
    /\ call.out[2].content =
          <<<<"Result:", "run_dolphindb_script", "\n", "1", "row", "\n">>
            \o EnvironmentDetails>>


(***************************************************************************)
(* Replies and observations in the history.                                *)
(***************************************************************************)
\* an assistant entry appended by the loop
IsReplyEntry(e) ==
    /\ e.role = "assistant"
    /\ Len(e.content) = 1
    /\ Len(e.content[1]) = 2
    /\ e.content[1][1] = "reply"

\* an observation entry: the retry observation or a three-part tool result
IsObservationEntry(e) ==
    \/ e = Entry("tool_result", <<NoActionObservation>>, FALSE)
    \/ /\ e.role = "user"
       /\ e.multipart
       /\ Len(e.content) = 3

\* the positions of the loop's assistant entries
ReplyPositions == {i \in DOMAIN history : IsReplyEntry(history[i])}

\* C34: between two consecutive assistant entries of the loop lies exactly
\* one observation entry, directly before the later one, with at most one
\* user-reply entry ahead of it; behind the last assistant entry lie at
\* most one observation and a user reply ahead of it; every observation
\* entry follows the assistant entry of its turn.
C34_OneObservationPerReply ==
    /\ \A i \in ReplyPositions :
          LET later == {j \in ReplyPositions : j > i}
              stop == IF later = {} THEN Len(history) + 1 ELSE MinPos(later)
              between == (i + 1)..(stop - 1) IN
          /\ Cardinality({k \in between : IsObservationEntry(history[k])}) <= 1
          /\ later # {} =>
                /\ IsObservationEntry(history[stop - 1])
                /\ stop - i \in {2, 3}
          /\ \A k \in between :
                \/ /\ IsObservationEntry(history[k])
                   /\ \A m \in between : m <= k
                \/ /\ k = i + 1
                   /\ history[k].role = "user"
                   /\ ~history[k].multipart
                   /\ k + 1 \in between
                   /\ IsObservationEntry(history[k + 1])
    /\ \A k \in DOMAIN history :
          IsObservationEntry(history[k]) =>
              \E i \in ReplyPositions : i < k /\ k - i <= 2

\* a reply, the user's answer to its question, the tool-result entry, and
\* the next reply
C34_Witness ==
    \E i \in DOMAIN history :
        /\ i + 3 \in DOMAIN history
        /\ IsReplyEntry(history[i])
        /\ history[i + 1] = Entry("user", <<<<"yes">>>>, FALSE)
        /\ IsObservationEntry(history[i + 2])
        /\ IsReplyEntry(history[i + 3])


(***************************************************************************)
(* The environment lifecycle: the endpoints of environments.py and the     *)
(* tasks of worker.py working on one Environment row.                      *)
(*                                                                         *)
(* env.status, env.message, env.container_group_id and                     *)
(* env.code_server_group_id are the row's columns; env.live is the set of  *)
(* container groups that exist at the cloud provider.  The tasks are       *)
(* coroutines of one event loop and the endpoints run in another process,  *)
(* so the steps of different tasks interleave at every await.              *)
(***************************************************************************)
allbutenv == <<loopvars, ct, sel, spl, host, wf, call, accounts>>

\* status values written as active by crud.get_active_environments
ActiveStatuses == {"PROVISIONING", "RUNNING"}

\* crud.update_environment_status
update_environment_status(row, status, message) ==
    [row EXCEPT !.status = status, !.message = message]

\* AliyunECIService.describe_instances_batch: the groups listed by the
\* provider, or the empty mapping when the call raised
describe_instances_batch(live, container_group_ids, succeeds) ==
    [ok |-> succeeds \/ container_group_ids = {},
     listed |-> IF succeeds THEN live \cap container_group_ids ELSE {}]

InitEnvironments ==
    /\ LoopAtRest
    /\ tools = ToolRegistry
    /\ ct = CtIdle
    /\ sel = SelIdle
    /\ spl = SplIdle
    /\ host = HostDirect
    /\ wf = WfIdle
    /\ call = CallIdle
    /\ accounts = NoAccounts
    /\ env = NoEnvironment

\* POST /: the row is created with the column default PENDING and the create
\* job is enqueued
CreateEnvironment ==
    /\ env.status = ""
    /\ env' = [env EXCEPT !.status = "PENDING", !.create = "queued"]
    /\ UNCHANGED allbutenv

\* create_environment_task, line 16
CreateTaskBegins ==
    /\ env.create = "queued"
    /\ env' = [update_environment_status(env, "PROVISIONING", "Creating cloud resources...")
                  EXCEPT !.create = "creating_ddb"]
    /\ UNCHANGED allbutenv

\* aliyun_service.create_instance returns the new container group
CreateInstanceReturns ==
    /\ env.create = "creating_ddb"
    /\ env' = [env EXCEPT !.live = env.live \cup {"ddb"}, !.create = "ddb_created"]
    /\ UNCHANGED allbutenv

\* update_environment_after_provisioning of lines 23-27
CreateRecordsInstance ==
    /\ env.create = "ddb_created"
    /\ env' = [update_environment_status(env, "PROVISIONING",
                                         "DolphinDB is ready. Creating Code-Server...")
                  EXCEPT !.container_group_id = "ddb", !.create = "creating_cs"]
    /\ UNCHANGED allbutenv

\* aliyun_service.create_code_server_instance returns the new container group
CreateCodeServerReturns ==
    /\ env.create = "creating_cs"
    /\ env' = [env EXCEPT !.live = env.live \cup {"cs"}, !.create = "cs_created"]
    /\ UNCHANGED allbutenv

\* update_environment_after_provisioning of lines 42-48
CreateRecordsRunning ==
    /\ env.create = "cs_created"
    /\ env' = [update_environment_status(env, "RUNNING", "Environment is ready.")
                  EXCEPT !.container_group_id = "ddb", !.code_server_group_id = "cs",
                         !.create = "done"]
    /\ UNCHANGED allbutenv

\* one of the provider calls raises: except Exception sets ERROR
CreateTaskRaises ==
    /\ env.create \in {"creating_ddb", "creating_cs"}
    /\ env' = [update_environment_status(env, "ERROR", "create failed")
                  EXCEPT !.create = "done"]
    /\ UNCHANGED allbutenv

\* expires_at <= utcnow() from now on
EnvironmentExpires ==
    /\ env.status # ""
    /\ ~env.expired
    /\ env' = [env EXCEPT !.expired = TRUE]
    /\ UNCHANGED allbutenv

\* DELETE /{env_id}
DeleteEnvironment ==
    /\ env.status # ""
    /\ env.delete.pc \in {"idle", "done"}
    /\ env' = [update_environment_status(env, "DELETING", "Scheduled for deletion.")
                  EXCEPT !.delete = [NoTask EXCEPT !.pc = "queued"]]
    /\ UNCHANGED allbutenv

\* cleanup_expired_environments_task for a RUNNING row past its expiry
CleanupExpired ==
    /\ env.status = "RUNNING"
    /\ env.expired
    /\ env.delete.pc \in {"idle", "done"}
    /\ env' = [update_environment_status(env, "DELETING",
                                         "Environment expired. Cleaning up.")
                  EXCEPT !.delete = [NoTask EXCEPT !.pc = "queued"]]
    /\ UNCHANGED allbutenv

\* delete_environment_task, line 60
DeleteTaskReads ==
    /\ env.delete.pc = "queued"
    /\ env' = [env EXCEPT !.delete = [NoTask EXCEPT
                                         !.pc = "read",
                                         !.group = env.container_group_id,
                                         !.cs_group = env.code_server_group_id]]
    /\ UNCHANGED allbutenv

\* lines 61-67: the groups the row named when it was read are deleted
DeleteTaskDeletes ==
    /\ env.delete.pc = "read"
    /\ env' = [env EXCEPT !.live = env.live \ {env.delete.group, env.delete.cs_group},
                          !.delete.pc = "deleted"]
    /\ UNCHANGED allbutenv

\* line 68
DeleteTaskMarks ==
    /\ env.delete.pc = "deleted"
    /\ env' = [update_environment_status(env, "DELETED", "Successfully deleted.")
                  EXCEPT !.delete.pc = "done"]
    /\ UNCHANGED allbutenv

\* delete_instance raises: except Exception sets ERROR
DeleteTaskRaises ==
    /\ env.delete.pc = "read"
    /\ env.delete.group # "" \/ env.delete.cs_group # ""
    /\ env' = [update_environment_status(env, "ERROR", "Deletion failed")
                  EXCEPT !.delete.pc = "done"]
    /\ UNCHANGED allbutenv

\* a container group disappears at the provider without the service's doing
CloudLoses ==
    /\ \E g \in env.live : env' = [env EXCEPT !.live = env.live \ {g}]
    /\ UNCHANGED allbutenv

\* sync_cloud_state_task, lines 112-123: the active rows and their group ids
SyncReads ==
    /\ env.sync.pc = "idle"
    /\ env.status \in ActiveStatuses
    /\ env' = [env EXCEPT !.sync = [NoTask EXCEPT !.pc = "read",
                                                  !.group = env.container_group_id]]
    /\ UNCHANGED allbutenv

\* lines 125-128
SyncDescribes ==
    /\ env.sync.pc = "read"
    /\ \E succeeds \in BOOLEAN :
          LET answer == describe_instances_batch(env.live, {env.sync.group} \ {""},
                                                 succeeds) IN
          env' = [env EXCEPT !.sync.pc = "described", !.sync.ok = answer.ok,
                             !.sync.listed = answer.listed]
    /\ UNCHANGED allbutenv

\* lines 132-138
SyncReconciles ==
    /\ env.sync.pc = "described"
    /\ IF env.sync.group # "" /\ env.sync.group \notin env.sync.listed
       THEN env' = [update_environment_status(env, "DELETED",
                        "Instance was deleted from the cloud provider externally.")
                       EXCEPT !.sync = NoTask]
       ELSE env' = [env EXCEPT !.sync = NoTask]
    /\ UNCHANGED allbutenv

\* GET /{env_id}, line 83
CheckReads ==
    /\ env.check.pc = "idle"
    /\ env.status = "RUNNING"
    /\ env.container_group_id # ""
    /\ env' = [env EXCEPT !.check = [NoTask EXCEPT !.pc = "read",
                                                   !.group = env.container_group_id]]
    /\ UNCHANGED allbutenv

\* lines 84-86
CheckDescribes ==
    /\ env.check.pc = "read"
    /\ \E succeeds \in BOOLEAN :
          LET answer == describe_instances_batch(env.live, {env.check.group}, succeeds) IN
          env' = [env EXCEPT !.check.pc = "described", !.check.ok = answer.ok,
                             !.check.listed = answer.listed]
    /\ UNCHANGED allbutenv

\* lines 87-93
CheckReconciles ==
    /\ env.check.pc = "described"
    /\ IF env.check.group \notin env.check.listed
       THEN env' = [update_environment_status(env, "DELETED",
                        "Instance was not found on the cloud provider (verified on-demand).")
                       EXCEPT !.check = NoTask]
       ELSE env' = [env EXCEPT !.check = NoTask]
    /\ UNCHANGED allbutenv

NextEnvironments ==
    \/ CreateEnvironment
    \/ CreateTaskBegins
    \/ CreateInstanceReturns
    \/ CreateRecordsInstance
    \/ CreateCodeServerReturns
    \/ CreateRecordsRunning
    \/ CreateTaskRaises
    \/ EnvironmentExpires
    \/ DeleteEnvironment
    \/ CleanupExpired
    \/ DeleteTaskReads
    \/ DeleteTaskDeletes
    \/ DeleteTaskMarks
    \/ DeleteTaskRaises
    \/ CloudLoses
    \/ SyncReads
    \/ SyncDescribes
    \/ SyncReconciles
    \/ CheckReads
    \/ CheckDescribes
    \/ CheckReconciles

SpecEnvironments == InitEnvironments /\ [][NextEnvironments]_vars

\* C37: once the status is DELETED no step of a task or endpoint sets it to
\* PROVISIONING or RUNNING, whatever tasks run concurrently.
C37_DeletedStaysDeleted ==
    [][env.status = "DELETED" => env'.status \notin ActiveStatuses]_vars

\* this step is the reconciliation of task writing DELETED into the row
ReconciliationMarks(task, task_after) ==
    /\ task.pc = "described"
    /\ task_after.pc = "idle"
    /\ env'.status = "DELETED"
    /\ env.status # "DELETED" \/ env'.message # env.message

\* C38: the reconciliation of sync_cloud_state_task and of get_environment_status
\* writes DELETED only after a describe call that succeeded and did not list
\* the row's container group; a failed describe call marks nothing.
C38_MarkedOnlyWhenSeenMissing ==
    [][/\ ReconciliationMarks(env.sync, env'.sync) =>
             env.sync.ok /\ env.sync.group \notin env.sync.listed
       /\ ReconciliationMarks(env.check, env'.check) =>
             env.check.ok /\ env.check.group \notin env.check.listed]_vars

====
